---- MODULE Spec2Model ----
(***************************************************************************)
(* A model of house_loop_maker/simple_midi.py: the Standard MIDI File      *)
(* reader (load_midi, _parse_track, _read_vlq) and writer (_encode_midi,   *)
(* _encode_instrument_track, _encode_vlq).                                 *)
(*                                                                         *)
(* Bytes are integers 0..255 and a bytes object is a sequence of them; a   *)
(* Python index i is the TLA+ index i + 1.  Python floats (seconds, BPM)   *)
(* are modelled as exact rationals in lowest terms, [num, den] with        *)
(* den > 0.  load_midi is a state machine with one action per statement    *)
(* group or loop iteration; the functions it calls are operators.          *)
(***************************************************************************)
EXTENDS Integers, Sequences, FiniteSets, TLC

VARIABLES
    pc,             \* position in SimpleMidiFile.write / load_midi
    midi,           \* the SimpleMidiFile given to write (or NoFile)
    data,           \* the bytes of the file (path.read_bytes())
    cursor,         \* load_midi: cursor
    num_tracks,     \* load_midi: num_tracks
    track_no,       \* load_midi: iterations of "for _ in range(num_tracks)" begun
    ticks_per_quarter, \* load_midi: ticks_per_quarter
    tempo_us,       \* load_midi: tempo_us
    events,         \* load_midi: events
    track_data,     \* _parse_track: track_data
    st,             \* _parse_track: its locals [index, tick, running_status, events]
    pos,            \* load_midi: number of merged events the pairing loop has consumed
    active,         \* load_midi: active, (channel, pitch) -> stack of (tick, velocity)
    notes,          \* load_midi: notes
    result,         \* what load_midi returns (NoResult until it returns)
    scenario,       \* the test fixture the file was built from (not program state)
    vlq,            \* the VLQ round trip under test: [value, bytes, read]
    loop            \* generate_house_loop: its options and locals (NoLoop when not run)

vars == <<pc, midi, data, cursor, num_tracks, track_no, ticks_per_quarter, tempo_us,
          events, track_data, st, pos, active, notes, result, scenario, vlq, loop>>

(***************************************************************************)
(* Python built-ins                                                        *)
(***************************************************************************)
None == -1

Max(a, b) == IF a >= b THEN a ELSE b

Min(a, b) == IF a <= b THEN a ELSE b

Abs(a) == IF a >= 0 THEN a ELSE -a

\* data[lo:hi] for 0 <= lo: the slice is cut at the end of data, never an error.
Slice(d, lo, hi) ==
    LET h == Min(hi, Len(d))
    IN IF lo >= h THEN <<>> ELSE [i \in 1..(h - lo) |-> d[lo + i]]

RECURSIVE FromBytesAcc(_, _, _)
FromBytesAcc(b, i, acc) ==
    IF i > Len(b) THEN acc ELSE FromBytesAcc(b, i + 1, acc * 256 + b[i])

\* int.from_bytes(b, "big"); the empty slice gives 0.
FromBytes(b) == FromBytesAcc(b, 1, 0)

RECURSIVE Pow256(_)
Pow256(n) == IF n = 0 THEN 1 ELSE 256 * Pow256(n - 1)

\* value.to_bytes(n, "big") for 0 <= value < 256^n (OverflowError otherwise).
ToBytes(value, n) == [i \in 1..n |-> (value \div Pow256(n - i)) % 256]

\* b"".join(chunks), and a bytearray or list grown by extend: the sequences of
\* ss[lo..hi] one after the other.
RECURSIVE JoinRange(_, _, _)
JoinRange(ss, lo, hi) ==
    IF lo > hi THEN <<>>
    ELSE IF lo = hi THEN ss[lo]
    ELSE JoinRange(ss, lo, (lo + hi) \div 2) \o JoinRange(ss, ((lo + hi) \div 2) + 1, hi)

Join(ss) == JoinRange(ss, 1, Len(ss))

RECURSIVE Gcd(_, _)
Gcd(a, b) == IF b = 0 THEN a ELSE Gcd(b, a % b)

\* The float n/d, d /= 0, as a rational in lowest terms.
Rat(n, d) ==
    LET g == Gcd(Abs(n), Abs(d))
        s == IF d < 0 THEN -1 ELSE 1
    IN [num |-> s * (n \div g), den |-> s * (d \div g)]

\* a * b, reduced crosswise before multiplying.
RatMul(a, b) ==
    LET x == Rat(a.num, b.den)
        y == Rat(b.num, a.den)
    IN [num |-> x.num * y.num, den |-> x.den * y.den]

\* a / b for b /= 0.
RatDiv(a, b) == RatMul(a, Rat(b.den, b.num))

\* a < b, over the common denominator.
RatLess(a, b) ==
    LET g == Gcd(a.den, b.den)
    IN a.num * (b.den \div g) < b.num * (a.den \div g)

\* a - b
RatSub(a, b) ==
    LET g == Gcd(a.den, b.den)
    IN Rat(a.num * (b.den \div g) - b.num * (a.den \div g), (a.den \div g) * b.den)

RatAbs(a) == [num |-> Abs(a.num), den |-> a.den]

\* round(x) of a float x = n/d, d > 0: Python rounds a tie to the even integer.
Round(x) ==
    LET q == x.num \div x.den
        r == x.num - q * x.den
    IN IF 2 * r < x.den THEN q
       ELSE IF 2 * r > x.den THEN q + 1
       ELSE IF q % 2 = 0 THEN q ELSE q + 1

(***************************************************************************)
(* Variable-length quantities                                              *)
(***************************************************************************)
RECURSIVE ReadVlqLoop(_, _, _)
ReadVlqLoop(d, index, value) ==
    IF index < Len(d)
    THEN LET byte == d[index + 1]
             v == value * 128 + (byte % 128)
         IN IF byte >= 128 THEN ReadVlqLoop(d, index + 1, v) ELSE <<v, index + 1>>
    ELSE <<value, index>>

\* _read_vlq(data, index) -> (value, index)
_read_vlq(d, index) == ReadVlqLoop(d, index, 0)

RECURSIVE EncodeVlqLoop(_, _)
EncodeVlqLoop(value, bytes_out) ==
    IF value /= 0
    THEN EncodeVlqLoop(value \div 128, <<(value % 128) + 128>> \o bytes_out)
    ELSE bytes_out

\* The loop of _encode_vlq filling bytes_out, shown with the little-endian
\* order a bytes_out.append in place of insert(0, ...) would give.
EncodeVlqAppended(value) ==
    LET RECURSIVE Loop(_, _)
        Loop(v, out) ==
            IF v /= 0 THEN Loop(v \div 128, Append(out, (v % 128) + 128)) ELSE out
    IN Append(Loop(value \div 128, <<>>), value % 128)

\* _encode_vlq(value) for value >= 0
_encode_vlq(value) == Append(EncodeVlqLoop(value \div 128, <<>>), value % 128)

(***************************************************************************)
(* _parse_track                                                            *)
(***************************************************************************)
\* One event of the merged list: the tuple (tick, kind, payload).
Event(tick, kind, payload) == [tick |-> tick, kind |-> kind, payload |-> payload]

\* The locals of _parse_track on entry; flow is where control goes next:
\* "loop" (test the while condition), "break", or "raise" (ValueError).
TrackStartStatus == None

ParseStart ==
    [index |-> 0, tick |-> 0, running_status |-> TrackStartStatus,
     events |-> <<>>, flow |-> "loop"]

\* ParseMeta as it would be if every meta event of type 0x51 were kept as a
\* tempo, whatever its length.
ParseMetaAnyLength(td, s, tick, index, rs) ==
    IF index >= Len(td)
    THEN [s EXCEPT !.index = index, !.tick = tick, !.running_status = rs,
                   !.flow = "break"]
    ELSE LET meta_type == td[index + 1]
             lv == _read_vlq(td, index + 1)
             length == lv[1]
             meta_data == Slice(td, lv[2], lv[2] + length)
         IN [s EXCEPT !.index = lv[2] + length, !.tick = tick,
                      !.running_status = rs,
                      !.events = IF meta_type = 81
                                 THEN Append(@, Event(tick, "tempo", <<FromBytes(meta_data)>>))
                                 ELSE @]

\* Status 0xFF: a meta event; only a 3-byte tempo is kept.
ParseMeta(td, s, tick, index, rs) ==
    IF index >= Len(td)
    THEN [s EXCEPT !.index = index, !.tick = tick, !.running_status = rs,
                   !.flow = "break"]
    ELSE LET meta_type == td[index + 1]
             lv == _read_vlq(td, index + 1)
             length == lv[1]
             meta_data == Slice(td, lv[2], lv[2] + length)
         IN [s EXCEPT !.index = lv[2] + length, !.tick = tick,
                      !.running_status = rs,
                      !.events = IF meta_type = 81 /\ length = 3
                                 THEN Append(@, Event(tick, "tempo", <<FromBytes(meta_data)>>))
                                 ELSE @]

\* ParseSysex as it would be without "index += length": the payload left to be
\* read as events.
ParseSysexKeepingPayload(td, s, tick, index, rs) ==
    LET lv == _read_vlq(td, index)
    IN [s EXCEPT !.index = lv[2], !.tick = tick, !.running_status = rs]

\* Status 0xF0 or 0xF7: a length-prefixed payload, skipped.
ParseSysex(td, s, tick, index, rs) ==
    LET lv == _read_vlq(td, index)
    IN [s EXCEPT !.index = lv[2] + lv[1], !.tick = tick, !.running_status = rs]

\* Any other status: a channel message.
ParseChannel(td, s, tick, index, rs, status_byte) ==
    LET event_type == (status_byte \div 16) * 16
        channel == status_byte % 16
        t == [s EXCEPT !.index = index, !.tick = tick, !.running_status = rs]
    IN IF event_type \in {128, 144}
       THEN IF index + 2 > Len(td)
            THEN [t EXCEPT !.flow = "break"]
            ELSE [t EXCEPT !.index = index + 2,
                           !.events = Append(@, Event(tick, "note",
                               <<event_type, channel, td[index + 1], td[index + 2]>>))]
       ELSE IF event_type = 192
       THEN IF index >= Len(td)
            THEN [t EXCEPT !.flow = "break"]
            ELSE [t EXCEPT !.index = index + 1,
                           !.events = Append(@, Event(tick, "program",
                               <<channel, td[index + 1]>>))]
       ELSE [t EXCEPT !.index = index + (IF event_type \in {160, 176, 224} THEN 2 ELSE 1)]

\* ResolveStatus as it would be if an event without a status byte still had
\* one byte consumed for it.
ResolveStatusSkipping(td, index, running_status) ==
    IF td[index + 1] >= 128
    THEN <<td[index + 1], index + 1, td[index + 1]>>
    ELSE <<running_status, index + 1, running_status>>

\* The status byte in force for the event at index: the byte there when its
\* top bit is set (consumed, and remembered), else the remembered one.
\* Returns <<status_byte, index, running_status>>; status_byte = None is the
\* ValueError "Running status encountered without previous status byte".
ResolveStatus(td, index, running_status) ==
    IF td[index + 1] >= 128
    THEN <<td[index + 1], index + 1, td[index + 1]>>
    ELSE <<running_status, index, running_status>>

\* One iteration of "while index < len(track_data)", entered with the
\* condition true.
ParseEvent(td, s) ==
    LET dv == _read_vlq(td, s.index)
        tick == s.tick + dv[1]
        index == dv[2]
    IN IF index >= Len(td)
       THEN [s EXCEPT !.index = index, !.tick = tick, !.flow = "break"]
       ELSE LET r == ResolveStatus(td, index, s.running_status)
            IN IF r[1] = None
               THEN [s EXCEPT !.index = index, !.tick = tick, !.flow = "raise"]
               ELSE IF r[1] = 255 THEN ParseMeta(td, s, tick, r[2], r[3])
               ELSE IF r[1] \in {240, 247} THEN ParseSysex(td, s, tick, r[2], r[3])
               ELSE ParseChannel(td, s, tick, r[2], r[3], r[1])

\* The while loop of _parse_track run to its end from locals s.
RECURSIVE ParseLoop(_, _)
ParseLoop(td, s) ==
    IF s.flow = "loop" /\ s.index < Len(td) THEN ParseLoop(td, ParseEvent(td, s)) ELSE s

\* _parse_track(track_data): its final locals; flow = "raise" is the ValueError,
\* otherwise .events is the list returned.
_parse_track(td) == ParseLoop(td, ParseStart)

(***************************************************************************)
(* Sorting: list.sort is stable                                            *)
(***************************************************************************)
\* KeyLess as it would be if _encode_instrument_track sorted by item[0] alone,
\* without the priority item[2].
KeyLessTickOnly(key, a, b) ==
    CASE key = "event" -> a.tick < b.tick
      [] key = "note" -> \/ RatLess(a.start, b.start)
                         \/ (a.start = b.start /\ a.pitch < b.pitch)
      [] key = "item" -> a[1] < b[1]

\* The sort keys in use: load_midi sorts events by e[0] and notes by
\* (n.start, n.pitch); _encode_instrument_track sorts by (item[0], item[2]).
KeyLess(key, a, b) ==
    CASE key = "event" -> a.tick < b.tick
      [] key = "note" -> \/ RatLess(a.start, b.start)
                         \/ (a.start = b.start /\ a.pitch < b.pitch)
      [] key = "item" -> a[1] < b[1] \/ (a[1] = b[1] /\ a[3] < b[3])

\* The place s[i] takes in the sorted list: after every element of a smaller
\* key and after the elements of an equal key that stood before it.
SortedPlace(s, i, key) ==
    1 + Cardinality({j \in 1..Len(s) : \/ KeyLess(key, s[j], s[i])
                                       \/ (j < i /\ ~KeyLess(key, s[i], s[j]))})

\* s.sort(key=...); the places are made a tuple (\o <<>>) so that each is
\* computed once.
StableSort(s, key) ==
    LET place == [i \in 1..Len(s) |-> SortedPlace(s, i, key)] \o <<>>
    IN [k \in 1..Len(s) |-> s[CHOOSE i \in 1..Len(s) : place[i] = k]]

(***************************************************************************)
(* Timing                                                                  *)
(***************************************************************************)
DefaultTempoUs == 500000

\* _ticks_to_seconds(tick, tempo_us, ticks_per_quarter), ticks_per_quarter /= 0
_ticks_to_seconds(tick, tempo, tpq) ==
    RatMul(Rat(tick, 1), RatDiv(RatDiv(Rat(tempo, 1), Rat(1000000, 1)), Rat(tpq, 1)))

\* _seconds_to_ticks(seconds, tempo_bpm, ticks_per_quarter)
_seconds_to_ticks(seconds, tempo_bpm, tpq) ==
    Round(RatDiv(seconds, RatDiv(RatDiv(Rat(60, 1), tempo_bpm), Rat(tpq, 1))))

(***************************************************************************)
(* load_midi                                                               *)
(***************************************************************************)
MThd == <<77, 84, 104, 100>>

MTrk == <<77, 84, 114, 107>>

NoResult == [kind |-> "none"]

NoFile == [kind |-> "none"]

MidiNote(pitch, start, end, velocity) ==
    [pitch |-> pitch, start |-> start, end |-> end, velocity |-> velocity]

LoadedMidi(tempo, tpq, ns) ==
    [kind |-> "LoadedMidi", tempo |-> tempo, ticks_per_quarter |-> tpq, notes |-> ns]

\* SmpteBitSet as it would be with the mask 0x80 in place of 0x8000.
SmpteLowByteBit(division) == (division \div 128) % 2 = 1

\* "ticks_per_quarter & 0x8000" on the 16-bit division field
SmpteBitSet(division) == (division \div 32768) % 2 = 1

\* The header of load_midi, lines 61-77: [ok, num_tracks, ticks_per_quarter, cursor].
ReadHeader(d) ==
    LET header_length == IF Slice(d, 0, 4) = MThd THEN FromBytes(Slice(d, 4, 8)) ELSE 0
        header_data == Slice(d, 8, 8 + header_length)
        division == FromBytes(Slice(header_data, 4, 6))
    IN [ok |-> /\ Slice(d, 0, 4) = MThd
               /\ Len(header_data) >= 6
               /\ ~SmpteBitSet(division),
        num_tracks |-> FromBytes(Slice(header_data, 2, 4)),
        ticks_per_quarter |-> division,
        cursor |-> 8 + header_length]

\* The chunk at cursor, lines 83-89: [ok, track_data, cursor].
ReadChunk(d, c) ==
    LET ok == Slice(d, c, c + 4) = MTrk
        track_length == IF ok THEN FromBytes(Slice(d, c + 4, c + 8)) ELSE 0
    IN [ok |-> ok,
        track_data |-> Slice(d, c + 8, c + 8 + track_length),
        cursor |-> c + 8 + track_length]

\* TrackEntry as it would be if running_status lived outside the call (a module
\* variable) and kept the value the previous track left.
TrackEntryKeepingStatus(prev) == [ParseStart EXCEPT !.running_status = prev.running_status]

\* The locals a call of _parse_track starts with; prev are those the previous
\* call ended with, which a call never sees.
TrackEntry(prev) == ParseStart

\* The tempo after a "tempo" event e, line 97-98.
TempoAfter(tempo, e) == IF tempo = DefaultTempoUs THEN e.payload[1] ELSE tempo

\* Pop as it would be with starts.pop(0): the oldest entry first.
PopFirst(starts) == <<starts[1], SubSeq(starts, 2, Len(starts))>>

\* Pop as it would be with starts[-1]: the entry read but left on the stack.
PopKeeping(starts) == <<starts[Len(starts)], starts>>

\* starts.pop(): <<the entry popped, the list left>>
Pop(starts) == <<starts[Len(starts)], SubSeq(starts, 1, Len(starts) - 1)>>

\* active.get(key): the empty list stands for None as well (both are falsy).
ActiveGet(act, key) == IF key \in DOMAIN act THEN act[key] ELSE <<>>

ActivePut(act, key, starts) ==
    [k \in DOMAIN act \cup {key} |-> IF k = key THEN starts ELSE act[k]]

\* ProcessNote as it would be if the test of line 102 were "event_type == 0x90"
\* alone: every note-on pushed, whatever its velocity.
ProcessNoteAnyVelocity(act, ns, e, tempo, tpq) ==
    LET event_type == e.payload[1]
        key == <<e.payload[2], e.payload[3]>>
        velocity == e.payload[4]
        starts == ActiveGet(act, key)
    IN IF event_type = 144
       THEN [active |-> ActivePut(act, key, Append(starts, <<e.tick, velocity>>)),
             notes |-> ns, ok |-> TRUE]
       ELSE IF starts /= <<>>
       THEN IF tpq = 0
            THEN [active |-> ActivePut(act, key, Pop(starts)[2]), notes |-> ns, ok |-> FALSE]
            ELSE [active |-> ActivePut(act, key, Pop(starts)[2]),
                  notes |-> Append(ns, MidiNote(key[2],
                                _ticks_to_seconds(Pop(starts)[1][1], tempo, tpq),
                                _ticks_to_seconds(e.tick, tempo, tpq),
                                Pop(starts)[1][2])),
                  ok |-> TRUE]
       ELSE [active |-> act, notes |-> ns, ok |-> TRUE]

\* ProcessNote as it would be with the stacks keyed by pitch alone, whatever
\* the channel.
ProcessNoteKeyedByPitch(act, ns, e, tempo, tpq) ==
    LET event_type == e.payload[1]
        key == <<0, e.payload[3]>>
        velocity == e.payload[4]
        starts == ActiveGet(act, key)
    IN IF event_type = 144 /\ velocity > 0
       THEN [active |-> ActivePut(act, key, Append(starts, <<e.tick, velocity>>)),
             notes |-> ns, ok |-> TRUE]
       ELSE IF starts /= <<>>
       THEN IF tpq = 0
            THEN [active |-> ActivePut(act, key, Pop(starts)[2]), notes |-> ns, ok |-> FALSE]
            ELSE [active |-> ActivePut(act, key, Pop(starts)[2]),
                  notes |-> Append(ns, MidiNote(key[2],
                                _ticks_to_seconds(Pop(starts)[1][1], tempo, tpq),
                                _ticks_to_seconds(e.tick, tempo, tpq),
                                Pop(starts)[1][2])),
                  ok |-> TRUE]
       ELSE [active |-> act, notes |-> ns, ok |-> TRUE]

\* Lines 100-112 for a "note" event e: [active, notes, ok]; ok is FALSE when
\* _ticks_to_seconds divides by zero.
ProcessNote(act, ns, e, tempo, tpq) ==
    LET event_type == e.payload[1]
        key == <<e.payload[2], e.payload[3]>>
        velocity == e.payload[4]
        starts == ActiveGet(act, key)
    IN IF event_type = 144 /\ velocity > 0
       THEN [active |-> ActivePut(act, key, Append(starts, <<e.tick, velocity>>)),
             notes |-> ns, ok |-> TRUE]
       ELSE IF starts /= <<>>
       THEN IF tpq = 0
            THEN [active |-> ActivePut(act, key, Pop(starts)[2]), notes |-> ns, ok |-> FALSE]
            ELSE [active |-> ActivePut(act, key, Pop(starts)[2]),
                  notes |-> Append(ns, MidiNote(key[2],
                                _ticks_to_seconds(Pop(starts)[1][1], tempo, tpq),
                                _ticks_to_seconds(e.tick, tempo, tpq),
                                Pop(starts)[1][2])),
                  ok |-> TRUE]
       ELSE [active |-> act, notes |-> ns, ok |-> TRUE]

\* The loop state of lines 96-114: [tempo_us, active, notes, ok].
PairStart == [tempo_us |-> DefaultTempoUs, active |-> <<>>, notes |-> <<>>, ok |-> TRUE]

\* One iteration of "for tick, kind, payload in events", lines 96-114.
PairStep(p, e, tpq) ==
    IF e.kind = "tempo"
    THEN [p EXCEPT !.tempo_us = TempoAfter(@, e)]
    ELSE IF e.kind = "note"
    THEN LET r == ProcessNote(p.active, p.notes, e, p.tempo_us, tpq)
         IN [p EXCEPT !.active = r.active, !.notes = r.notes, !.ok = r.ok]
    ELSE p

\* Lines 116-118: the value returned; tempo_us /= 0.
Returned(tempo, tpq, ns) ==
    LoadedMidi(Rat(60000000, tempo), tpq, StableSort(ns, "note"))

\* Lines 82-90 as a whole: the events of the n chunks from cursor c on, or not
\* ok when a chunk has no MTrk magic or its _parse_track raises.
RECURSIVE ReadTracks(_, _, _, _)
ReadTracks(d, c, n, evs) ==
    IF n = 0 THEN [ok |-> TRUE, events |-> evs]
    ELSE LET ch == ReadChunk(d, c)
             t == _parse_track(ch.track_data)
         IN IF ~ch.ok \/ t.flow = "raise"
            THEN [ok |-> FALSE, events |-> evs]
            ELSE ReadTracks(d, ch.cursor, n - 1, evs \o t.events)

\* Lines 96-114 as a whole.
RECURSIVE PairLoop(_, _, _, _)
PairLoop(evs, i, p, tpq) ==
    IF i > Len(evs) \/ ~p.ok THEN p ELSE PairLoop(evs, i + 1, PairStep(p, evs[i], tpq), tpq)

\* MergeEvents as it would be without events.sort: the tracks' events left in
\* parse order, one track after the other.
MergeEventsUnsorted(evs) == evs

\* Line 92: events.sort(key=lambda e: e[0]).
MergeEvents(evs) == StableSort(evs, "event")

Raised == [kind |-> "raised"]

\* load_midi on the bytes d of the file: the LoadedMidi returned, or Raised.
load_midi(d) ==
    LET h == ReadHeader(d)
        t == ReadTracks(d, h.cursor, h.num_tracks, <<>>)
        p == PairLoop(MergeEvents(t.events), 1, PairStart, h.ticks_per_quarter)
    IN IF ~h.ok THEN Raised
       ELSE IF ~t.ok THEN Raised
       ELSE IF ~p.ok \/ p.tempo_us = 0 THEN Raised
       ELSE Returned(p.tempo_us, h.ticks_per_quarter, p.notes)

(***************************************************************************)
(* The writer: _encode_instrument_track and _encode_midi                   *)
(***************************************************************************)
MidiInstrument(name, program, channel, ns) ==
    [name |-> name, program |-> program, channel |-> channel, notes |-> ns]

SimpleMidiFile(tempo, tpq, instruments) ==
    [kind |-> "SimpleMidiFile", tempo |-> tempo, ticks_per_quarter |-> tpq,
     instruments |-> instruments]

EndOfTrack == <<0, 255, 47, 0>>

\* Line 233: the tick of a note's note-on.
StartTick(note, tempo_bpm, ticks) == Max(0, _seconds_to_ticks(note.start, tempo_bpm, ticks))

\* EndTick as it would be without the max of line 234.
EndTickUnforced(note, tempo_bpm, ticks) == _seconds_to_ticks(note.end, tempo_bpm, ticks)

\* Line 234: the tick of a note's note-off.
EndTick(note, tempo_bpm, ticks) ==
    Max(StartTick(note, tempo_bpm, ticks) + 1, _seconds_to_ticks(note.end, tempo_bpm, ticks))

\* Lines 236-237: the (tick, message, priority) items of one note.
NoteItems(note, channel, tempo_bpm, ticks) ==
    << <<StartTick(note, tempo_bpm, ticks),
         <<144 + channel, note.pitch % 128, Max(0, Min(127, note.velocity))>>, 1>>,
       <<EndTick(note, tempo_bpm, ticks), <<128 + channel, note.pitch % 128, 0>>, 2>> >>

\* Lines 226-239: the sorted items of an instrument's track.
TrackItems(instrument, tempo_bpm, ticks) ==
    LET channel == instrument.channel % 16
        program == instrument.program % 128
    IN StableSort(<< <<0, <<192 + channel, program>>, 0>> >>
                  \o Join([i \in 1..Len(instrument.notes) |->
                              NoteItems(instrument.notes[i], channel, tempo_bpm, ticks)]),
                  "item")

\* Lines 241-247: each item as a delta-time and its message.
SerializeItems(items) ==
    Join([i \in 1..Len(items) |->
             _encode_vlq(items[i][1] - (IF i = 1 THEN 0 ELSE items[i - 1][1]))
             \o items[i][2]])

_encode_instrument_track(instrument, tempo_bpm, ticks) ==
    SerializeItems(TrackItems(instrument, tempo_bpm, ticks)) \o EndOfTrack

\* TempoTrack as it would be with int(60_000_000 / midi.tempo), which cuts the
\* fraction off, in place of int(round(...)).
TempoTrackTruncating(tempo_bpm) ==
    _encode_vlq(0) \o <<255, 88, 4, 4, 2, 24, 8>>
    \o _encode_vlq(0) \o <<255, 81, 3>>
    \o ToBytes(RatDiv(Rat(60000000, 1), tempo_bpm).num
               \div RatDiv(Rat(60000000, 1), tempo_bpm).den, 3)
    \o EndOfTrack

\* Lines 206-212: the tempo track.
TempoTrack(tempo_bpm) ==
    _encode_vlq(0) \o <<255, 88, 4, 4, 2, 24, 8>>
    \o _encode_vlq(0) \o <<255, 81, 3>>
    \o ToBytes(Round(RatDiv(Rat(60000000, 1), tempo_bpm)), 3)
    \o EndOfTrack

\* TrackChunk as it would be if the length counted the 8 bytes of the chunk
\* header too.
TrackChunkCountingHeader(track_bytes) ==
    MTrk \o ToBytes(Len(track_bytes) + 8, 4) \o track_bytes

\* Lines 214 and 220: a track wrapped as a chunk.
TrackChunk(track_bytes) == MTrk \o ToBytes(Len(track_bytes), 4) \o track_bytes

_encode_midi(m) ==
    LET header == MThd \o ToBytes(6, 4) \o ToBytes(1, 2)
                  \o ToBytes(Len(m.instruments) + 1, 2) \o ToBytes(m.ticks_per_quarter, 2)
        f[i \in 0..Len(m.instruments)] ==
            IF i = 0 THEN header \o TrackChunk(TempoTrack(m.tempo))
            ELSE f[i - 1] \o TrackChunk(_encode_instrument_track(
                                 m.instruments[i], m.tempo, m.ticks_per_quarter))
    IN f[Len(m.instruments)]

(***************************************************************************)
(* The loop generator (generator.py).  rng is a record of the values the   *)
(* random.Random returns at each place it is called: Draw(rng.x, n) is the *)
(* value returned at the n-th call (from 0) of the place x, and a place    *)
(* guarded by "rng.random() < p" holds TRUE where the draw is below p.      *)
(***************************************************************************)
Draw(values, n) == values[(n % Len(values)) + 1]

\* a + b
RatAdd(a, b) == RatSub(a, [num |-> -b.num, den |-> b.den])

\* a <= b
RatLeq(a, b) == ~RatLess(b, a)

\* min(a, b)
RatMin(a, b) == IF RatLess(b, a) THEN b ELSE a

\* math.floor(x), and x // y as math.floor(x / y)
RatFloor(x) == x.num \div x.den

\* math.ceil(x)
RatCeil(x) == -((-x.num) \div x.den)

RECURSIVE SumTo(_, _)
SumTo(q, n) == IF n = 0 THEN 0 ELSE q[n] + SumTo(q, n - 1)

\* sum(q)
Sum(q) == SumTo(q, Len(q))

\* sorted(set(q))
SortedSet(q) ==
    LET S == {q[i] : i \in 1..Len(q)}
    IN [k \in 1..Cardinality(S) |-> CHOOSE x \in S : Cardinality({y \in S : y < x}) = k - 1]

HouseLoopOptions(mode, swing, seed, tempo, target_bars) ==
    [mode |-> mode, swing |-> swing, seed |-> seed, tempo |-> tempo,
     target_bars |-> target_bars]

ChordShape(root_pc, pitches, label) ==
    [root_pc |-> root_pc, pitches |-> pitches, label |-> label]

\* _resolve_tempo(loaded, override); a rational is always finite.
_resolve_tempo(loaded, override) ==
    IF override /= None /\ RatLess(Rat(0, 1), override) THEN override
    ELSE IF RatLeq(loaded.tempo, Rat(0, 1)) THEN Rat(124, 1)
    ELSE loaded.tempo

\* _collect_notes(loaded)
_collect_notes(loaded) == StableSort(loaded.notes, "note")

\* _resolve_mode(mode_arg, note_infos) for the three modes it accepts.
_resolve_mode(mode_arg, note_infos) ==
    LET pitch_classes == {note_infos[i].pitch % 12 : i \in 1..Len(note_infos)}
        major_thirds == Cardinality({pitch_class \in pitch_classes :
                                        (pitch_class + 4) % 12 \in pitch_classes})
        minor_thirds == Cardinality({pitch_class \in pitch_classes :
                                        (pitch_class + 3) % 12 \in pitch_classes})
    IN IF mode_arg /= "auto" THEN mode_arg
       ELSE IF pitch_classes = {} THEN "euphoric"
       ELSE IF minor_thirds > major_thirds THEN "minor_fifth"
       ELSE "euphoric"

\* _estimate_register(note_infos)
_estimate_register(note_infos) ==
    IF note_infos = <<>> THEN 48
    ELSE LET average_pitch == Rat(Sum([i \in 1..Len(note_infos) |-> note_infos[i].pitch]),
                                  Len(note_infos))
         IN Max(36, Min(60, Round(RatDiv(average_pitch, Rat(12, 1))) * 12))

\* _extract_roots, lines 178-186: what the note adds to bars[bar] for the
\* pitch class pitch_class, as a number of entries.
BarWeight(note, bar, pitch_class, bar_length, target_bars) ==
    LET start_bar == RatFloor(RatDiv(note.start, bar_length))
        end_bar == Min(RatCeil(RatDiv(note.end, bar_length)), target_bars)
        weight == Max(1, Round(RatDiv(RatSub(note.end, note.start),
                                      RatDiv(bar_length, Rat(4, 1)))))
    IN IF start_bar < target_bars /\ start_bar <= bar /\ bar < end_bar
          /\ note.pitch % 12 = pitch_class
       THEN weight ELSE 0

\* Counter(bars[bar])[pitch_class]
BarCount(note_infos, bar, pitch_class, bar_length, target_bars) ==
    Sum([i \in 1..Len(note_infos) |->
            BarWeight(note_infos[i], bar, pitch_class, bar_length, target_bars)])

\* max(counts.items(), key=lambda kv: (kv[1], -kv[0]))[0] for a bar with notes
BarRoot(note_infos, bar, bar_length, target_bars) ==
    LET count(p) == BarCount(note_infos, bar, p, bar_length, target_bars)
    IN CHOOSE pitch_class \in 0..11 :
          /\ count(pitch_class) > 0
          /\ \A other \in 0..11 :
                \/ count(other) < count(pitch_class)
                \/ (count(other) = count(pitch_class) /\ other >= pitch_class)

\* _extract_roots, lines 187-199: the roots of the bars before bar.
RECURSIVE RootsTo(_, _, _, _)
RootsTo(note_infos, bar, bar_length, target_bars) ==
    IF bar = 0 THEN <<>>
    ELSE LET roots == RootsTo(note_infos, bar - 1, bar_length, target_bars)
             previous_root == IF roots = <<>> THEN 0 ELSE roots[Len(roots)]
             empty == \A pitch_class \in 0..11 :
                         BarCount(note_infos, bar - 1, pitch_class, bar_length, target_bars) = 0
         IN Append(roots, IF empty THEN previous_root
                          ELSE BarRoot(note_infos, bar - 1, bar_length, target_bars))

\* _extract_roots(note_infos, bar_length, target_bars)
_extract_roots(note_infos, bar_length, target_bars) ==
    LET any_content == \E bar \in 0..(target_bars - 1), pitch_class \in 0..11 :
                          BarCount(note_infos, bar, pitch_class, bar_length, target_bars) > 0
    IN IF note_infos = <<>> \/ ~any_content THEN <<>>
       ELSE RootsTo(note_infos, target_bars, bar_length, target_bars)

\* _default_roots(mode)
_default_roots(mode) == IF mode = "minor_fifth" THEN <<9, 4, 11, 7>> ELSE <<0, 7, 9, 5>>

Adjustments(mode) ==
    IF mode = "euphoric" THEN <<0, 2, 4, 5, 7, -3>> ELSE <<0, 3, 5, 7, 10, -5>>

\* _expand_roots, lines 222-232: one iteration.  The places adjust, lift and
\* repeat hold None where the draw is not below the threshold, and the index
\* rng.choice picks otherwise.
ExpandStep(base_roots, index, mode, rng, progression) ==
    LET root0 == base_roots[(index % Len(base_roots)) + 1] % 12
        adjust == Draw(rng.adjust, index)
        root1 == IF adjust /= None THEN (root0 + Adjustments(mode)[adjust + 1]) % 12
                 ELSE root0
        lift == Draw(rng.lift, index)
        root2 == IF progression /= <<>> /\ lift /= None
                 THEN (progression[Len(progression)] + <<2, 5, 7>>[lift + 1]) % 12
                 ELSE root1
        repeat == Draw(rng.repeat, index)
        root3 == IF progression /= <<>> /\ progression[Len(progression)] = root2
                    /\ repeat /= None
                 THEN (root2 + <<5, 7, 9>>[repeat + 1]) % 12
                 ELSE root2
    IN Append(progression, root3)

RECURSIVE ExpandTo(_, _, _, _)
ExpandTo(base_roots, index, mode, rng) ==
    IF index = 0 THEN <<>>
    ELSE ExpandStep(base_roots, index - 1, mode, rng,
                    ExpandTo(base_roots, index - 1, mode, rng))

\* _expand_roots(base_roots, target_bars, mode, rng)
_expand_roots(base_roots, target_bars, mode, rng) ==
    ExpandTo(IF base_roots = <<>> THEN _default_roots(mode) ELSE base_roots,
             target_bars, mode, rng)

Templates(mode) ==
    IF mode = "euphoric"
    THEN << <<"maj7", <<0, 4, 7, 11>> >>, <<"add9", <<0, 2, 7, 9>> >>,
            <<"sixnine", <<0, 4, 7, 9, 14>> >>, <<"suslift", <<0, 5, 7, 9, 14>> >> >>
    ELSE << <<"min7", <<0, 3, 7, 10>> >>, <<"min9", <<0, 3, 7, 10, 14>> >>,
            <<"power", <<0, 7, 12>> >>, <<"darkpad", <<0, 3, 5, 10, 14>> >> >>

\* while root_note < 36: root_note += 12
RECURSIVE RaiseTo36(_)
RaiseTo36(root_note) == IF root_note < 36 THEN RaiseTo36(root_note + 12) ELSE root_note

\* while root_note > 60: root_note -= 12
RECURSIVE LowerTo60(_)
LowerTo60(root_note) == IF root_note > 60 THEN LowerTo60(root_note - 12) ELSE root_note

\* _build_chord, lines 264-268: the pitch of one interval.
ChordPitch(root_note, interval) ==
    LET pitch == root_note + interval
        lifted == IF pitch < 0 THEN (pitch % 12) + 12 ELSE pitch
    IN IF lifted > 108 THEN lifted - 12 * (((lifted - 96) \div 12) + 1) ELSE lifted

\* _build_chord(root_pc, base_register, mode, rng) for the index-th chord built
_build_chord(root_pc, base_register, mode, rng, index) ==
    LET template == Templates(mode)[Draw(rng.template, index) + 1]
        intervals == template[2]
        root_note == LowerTo60(RaiseTo36(base_register + root_pc))
        unique_pitches == SortedSet([i \in 1..Len(intervals) |->
                                        ChordPitch(root_note, intervals[i])])
        top_pitch == unique_pitches[Len(unique_pitches)] + 12
    IN ChordShape(root_pc,
                  IF Draw(rng.shimmer, index) /\ top_pitch <= 108
                  THEN Append(unique_pitches, top_pitch) ELSE unique_pitches,
                  template[1])

\* _apply_swing(start_time, beat_position, beat_length, swing)
_apply_swing(start_time, beat_position, beat_length, swing) ==
    LET eighth_index == Round(RatMul(beat_position, Rat(2, 1)))
    IN IF eighth_index % 2 = 1
       THEN RatAdd(start_time, RatMul(RatMul(swing, beat_length), Rat(1, 2)))
       ELSE start_time

\* _render_stabs, lines 338-344: the pattern in eighths (beat * 2); its entries
\* are distinct, so that sorting them is SortedSet.
StabPattern(add_beat, drop_first) ==
    LET base_pattern == <<0, 1, 3, 5, 7>>
        appended == IF add_beat THEN Append(base_pattern, 4) ELSE base_pattern
    IN SortedSet(IF drop_first THEN SelectSeq(appended, LAMBDA eighth : eighth /= 0)
                 ELSE appended)

\* min(beat_length * share, bar_end - start - 0.01)
NoteDuration(beat_length, share, bar_end, start) ==
    RatMin(RatMul(beat_length, share), RatSub(RatSub(bar_end, start), Rat(1, 100)))

\* _render_stabs: the notes it appends to the instrument in the bar bar_index.
_render_stabs(chord, bar_start, bar_end, beat_length, swing, rng, bar_index) ==
    LET pattern == StabPattern(Draw(rng.add_beat, bar_index), Draw(rng.drop_first, bar_index))
        Step(step_index) ==
            LET beat == Rat(pattern[step_index + 1], 2)
                start == _apply_swing(RatAdd(bar_start, RatMul(beat, beat_length)),
                                      beat, beat_length, swing)
                duration == NoteDuration(beat_length, Rat(35, 100), bar_end, start)
                call == bar_index * 6 + step_index
                velocity == Draw(rng.stab_velocity, call)
            IN IF RatLeq(duration, Rat(0, 1)) THEN <<>>
               ELSE [p \in 1..Len(chord.pitches) |->
                        MidiNote(chord.pitches[p], start, RatAdd(start, duration),
                                 Max(0, Min(127, velocity + Draw(rng.jitter, call * 6 + p))))]
    IN Join([k \in 1..Len(pattern) |-> Step(k - 1)])

\* _render_plucks: the notes it appends to the instrument in the bar bar_index.
_render_plucks(chord, bar_start, bar_end, beat_length, swing, rng, bar_index) ==
    LET pattern == [i \in 1..8 |-> Rat(i - 1, 2)]
        low == SelectSeq(chord.pitches, LAMBDA p : p + 12 <= 115)
        raised == [i \in 1..Len(low) |-> low[i] + 12]
        chord_cycle == IF Draw(rng.octave, bar_index) /\ raised /= <<>> THEN raised
                       ELSE chord.pitches
        Step(idx) ==
            LET beat == pattern[idx + 1]
                start == _apply_swing(RatAdd(bar_start, RatMul(beat, beat_length)),
                                      beat, beat_length, RatMul(swing, Rat(8, 10)))
                duration == NoteDuration(beat_length, Rat(45, 100), bar_end, start)
                call == bar_index * 8 + idx
                cycled == chord_cycle[(idx % Len(chord_cycle)) + 1]
                pitch == IF Draw(rng.jump, call) /\ cycled + 12 <= 115 THEN cycled + 12
                         ELSE cycled
                velocity == Draw(rng.pluck_velocity, call)
            IN IF RatLeq(duration, Rat(0, 1)) THEN <<>>
               ELSE <<MidiNote(pitch, start, RatAdd(start, duration),
                               Max(0, Min(127, velocity)))>>
    IN Join([k \in 1..Len(pattern) |-> Step(k - 1)])

\* _render_pads as it would be with the pads held 0.05 s past the bar end.
_render_pads_held(chord, bar_start, bar_end, rng, bar_index) ==
    LET end == RatAdd(bar_end, Rat(5, 100))
    IN [p \in 1..Len(chord.pitches) |->
           MidiNote(chord.pitches[p], bar_start, end, Draw(rng.pad_velocity, bar_index))]

\* _render_pads: the notes it appends to the instrument in the bar bar_index.
_render_pads(chord, bar_start, bar_end, rng, bar_index) ==
    LET start == bar_start
        end == RatSub(bar_end, Rat(5, 100))
        velocity == Draw(rng.pad_velocity, bar_index)
    IN [p \in 1..Len(chord.pitches) |->
           LET pitch == chord.pitches[p]
               pad_pitch == IF Draw(rng.pad_down, bar_index * 6 + p) /\ pitch - 12 >= 36
                            THEN pitch - 12 ELSE pitch
           IN MidiNote(pad_pitch, start, end, Max(0, Min(127, velocity)))]

(***************************************************************************)
(* Fixtures: the files handed to load_midi and the SimpleMidiFiles handed  *)
(* to write.  A raw event is [delta, msg, elide]: msg is the status byte   *)
(* and what follows it, and elide drops the status byte (running status).  *)
(***************************************************************************)
MaxEvents == 4

MaxKeyEvents == 5

MaxTempoEvents == 2

MaxStatusEvents == 3

MaxNotes == 2

VlqWindow == 40

SeqsUpTo(S, n) == UNION {[1..k -> S] : k \in 0..n}

Raw(delta, msg) == [delta |-> delta, msg |-> msg, elide |-> FALSE]

RawBytes(ev) == <<ev.delta>> \o (IF ev.elide THEN Tail(ev.msg) ELSE ev.msg)

Flatten(ss) ==
    LET f[i \in 0..Len(ss)] == IF i = 0 THEN <<>> ELSE f[i - 1] \o ss[i]
    IN f[Len(ss)]

RawTrack(evs) == Flatten([i \in 1..Len(evs) |-> RawBytes(evs[i])])

RawChunk(magic, slack, payload) == magic \o ToBytes(Len(payload) + slack, 4) \o payload

\* A scenario: the chunks' payloads come from tracks; cut keeps only the first
\* cut bytes of the last payload (cut = None keeps it all); slack is added to
\* the last chunk's declared length; declared is added to the track count.
Fixture(family, division, tracks) ==
    [family |-> family, division |-> division, tracks |-> tracks, cut |-> None,
     slack |-> 0, declared |-> 0, magic |-> MTrk, midi |-> NoFile]

Payload(sc, i) ==
    LET full == RawTrack(sc.tracks[i])
    IN IF i = Len(sc.tracks) /\ sc.cut /= None THEN SubSeq(full, 1, sc.cut) ELSE full

FileBytes(sc) ==
    MThd \o ToBytes(6, 4) \o ToBytes(1, 2) \o ToBytes(Len(sc.tracks) + sc.declared, 2)
    \o ToBytes(sc.division, 2)
    \o Flatten([i \in 1..Len(sc.tracks) |->
           IF i = Len(sc.tracks) THEN RawChunk(sc.magic, sc.slack, Payload(sc, i))
           ELSE RawChunk(MTrk, 0, Payload(sc, i))])

OnA == <<144, 60, 64>>

OnB == <<144, 60, 80>>

OnC == <<145, 60, 70>>

OffA == <<128, 60, 0>>

OffC == <<129, 60, 0>>

Tempo5 == <<255, 81, 3, 7, 161, 32>>

TempoX == <<255, 81, 3, 6, 26, 128>>

TempoY == <<255, 81, 3, 9, 39, 192>>

\* One track of note-ons and note-offs of one key, at equal or rising ticks.
NotesFixtures ==
    {Fixture("notes", 4, <<t>>) :
        t \in SeqsUpTo({Raw(d, m) : d \in {0, 1}, m \in {OnA, OnB, OffA}}, MaxEvents)}

\* One track of note-ons and note-offs of two keys.
KeysFixtures ==
    {Fixture("keys", 4, <<t>>) :
        t \in SeqsUpTo({Raw(1, m) : m \in {OnA, OnB, OffA, OnC, OffC}}, MaxKeyEvents)}

\* A track of tempo events, then a track of notes.
TempoFixtures ==
    {Fixture("tempo", 4, <<t, n>>) :
        t \in SeqsUpTo({Raw(d, m) : d \in {0, 2}, m \in {Tempo5, TempoX, TempoY}},
                       MaxTempoEvents),
        n \in {<<>>, <<Raw(0, OnA), Raw(1, OffA)>>,
               <<Raw(1, OnA), Raw(2, OffA), Raw(0, OnB), Raw(2, OffA)>>}}

\* Tracks whose events may omit their status byte, alone or after another track.
StatusFixtures ==
    {Fixture("status", 4, lead \o <<t>>) :
        lead \in {<<>>, << <<Raw(0, OnA), Raw(1, OffA)>> >>},
        t \in SeqsUpTo({[delta |-> 1, msg |-> m, elide |-> e] :
                           m \in {OnA, OffA, OnC}, e \in BOOLEAN}, MaxStatusEvents)}

\* A track with every kind of event the parser knows.
FullTrack ==
    <<Raw(0, OnA), Raw(1, OffA), Raw(0, TempoX), Raw(0, <<240, 2, 1, 2>>),
      Raw(0, <<192, 5>>), Raw(0, <<176, 7, 100>>), Raw(0, <<208, 9>>),
      [delta |-> 1, msg |-> OnB, elide |-> FALSE], Raw(2, <<128, 60, 0>>),
      Raw(0, <<255, 47, 0>>)>>

\* The long delta-time 0x81 0x00 (128 ticks) before a note.
LongDeltaTrack == <<Raw(0, OnA), Raw(129, <<0, 128, 60, 0>>)>>

\* A last track cut short after any number of its bytes.
CutFixtures ==
    {[Fixture("cut", 4, lead \o <<t>>) EXCEPT !.cut = k] :
        lead \in {<<>>, << <<Raw(0, OnC), Raw(1, OffC)>> >>},
        t \in {FullTrack}, k \in 0..Len(RawTrack(FullTrack))}
    \cup {[Fixture("cut", 4, <<LongDeltaTrack>>) EXCEPT !.cut = k] :
            k \in 0..Len(RawTrack(LongDeltaTrack))}

\* A last chunk with a wrong magic, a declared length that is off, or missing.
ChunkFixtures ==
    {[Fixture("chunk", 4, lead \o << <<Raw(0, OnA), Raw(1, OffA)>> >>)
        EXCEPT !.magic = m, !.slack = k, !.declared = n] :
        lead \in {<<>>, << <<Raw(0, OnC), Raw(1, OffC)>> >>},
        m \in {MTrk, MThd, <<77, 84, 114, 75>>}, k \in {-3, 0, 1, 200}, n \in {-1, 0, 1}}

\* Headers with every kind of division field.
DivisionFixtures ==
    {Fixture("division", d, << <<Raw(0, OnA), Raw(1, OffA)>> >>) :
        d \in {0, 1, 4, 96, 480, 32767, 32768, 32772, 59176, 65535}}

\* Events the parser consumes and discards: meta events that are not a tempo
\* (type 0x51 of another length, length 3 of another type, a length of two VLQ
\* bytes), system-exclusive events (one holding the bytes of a tempo event),
\* and channel messages of one and of two data bytes.
LongMeta == <<255, 127, 129, 0>> \o [i \in 1..128 |-> IF i % 4 = 1 THEN 255 ELSE 64]

SkippedMsgs ==
    {<<255, 81, 2, 7, 161>>, <<255, 81, 4, 0, 7, 161, 32>>, <<255, 88, 3, 7, 161, 32>>,
     <<255, 1, 0>>, LongMeta,
     <<240, 6, 255, 81, 3, 7, 161, 32>>, <<247, 1, 144>>,
     <<192, 5>>, <<208, 9>>, <<176, 81, 3>>, <<224, 0, 64>>, <<160, 60, 64>>}

\* Discarded events that look most like a tempo event.
QuietMsgs ==
    {<<255, 81, 2, 7, 161>>, <<255, 81, 4, 0, 7, 161, 32>>, <<255, 88, 3, 7, 161, 32>>,
     <<240, 6, 255, 81, 3, 7, 161, 32>>, <<176, 81, 3>>}

MaxQuietEvents == 2

\* Tracks of notes and discarded events with no tempo event anywhere.
QuietFixtures ==
    {Fixture("quiet", 4, lead \o <<t>>) :
        lead \in {<<>>, << <<Raw(0, <<255, 81, 2, 6, 26>>), Raw(0, OnC), Raw(3, OffC)>> >>},
        t \in SeqsUpTo({Raw(1, m) : m \in QuietMsgs \cup {OnA, OffA}}, MaxQuietEvents)}

MaxInserted == 1

\* Tracks of notes and tempo events, some without a status byte of their own.
SkipBases ==
    {<<Raw(0, OnA), Raw(1, OffA), Raw(0, TempoX), Raw(2, OnB), Raw(1, OffA)>>,
     <<Raw(1, OnA), [delta |-> 1, msg |-> OnB, elide |-> TRUE], Raw(0, OffA),
       [delta |-> 2, msg |-> OffA, elide |-> TRUE], Raw(0, TempoY)>>}

\* base with the event ins[k] put, at delta-time 0, right before its k-th event.
Inserted(base, ins) ==
    Flatten([k \in 1..Len(base) |->
                IF k \in DOMAIN ins THEN <<Raw(0, ins[k]), base[k]>> ELSE <<base[k]>>])

\* A track with discarded events put before events that carry a status byte.
\* The ways to put one kind of discarded event at up to MaxInserted places.
Insertions(base) ==
    UNION {{[k \in S |-> m] : m \in SkippedMsgs} :
              S \in {T \in SUBSET {k \in 1..Len(base) : ~base[k].elide} :
                        Cardinality(T) <= MaxInserted}}

SkipFixtures ==
    UNION {{Fixture("skip", 4, lead \o <<Inserted(base, ins)>>) :
               lead \in {<<>>, << <<Raw(1, TempoX), Raw(0, OnC), Raw(3, OffC)>> >>},
               ins \in Insertions(base)} : base \in SkipBases}

MaxMergeEvents == 2

\* Two tracks of note-ons, note-offs and tempo events of one key whose ticks
\* interleave: an event of the second track may lie before one of the first.
MergeFixtures ==
    {Fixture("merge", 4, <<t, u>>) :
        t \in SeqsUpTo({Raw(d, m) : d \in {0, 2}, m \in {OnA, OffA, TempoX}}, MaxMergeEvents),
        u \in {<<Raw(1, OnB)>>, <<Raw(1, OffA)>>, <<Raw(1, OnB), Raw(2, OffA)>>,
               <<Raw(1, OffA), Raw(0, OnB)>>, <<Raw(1, TempoY), Raw(2, OffA)>>}}

OnZ == <<144, 60, 0>>

Off64 == <<128, 60, 64>>

MaxZeroEvents == 3

\* One track of note-ons, note-offs and note-ons of velocity 0.
ZeroFixtures ==
    {Fixture("zero", 4, <<t>>) :
        t \in SeqsUpTo({Raw(1, m) : m \in {OnA, OffA, Off64, OnZ, OnC}}, MaxZeroEvents)}

Seconds(n, d) == Rat(n, d)

WriteNotes ==
    {MidiNote(60, Seconds(0, 1), Seconds(1, 2), 64),
     MidiNote(60, Seconds(1, 2), Seconds(1, 1), 100),
     MidiNote(60, Seconds(1, 8), Seconds(3, 8), 0),
     MidiNote(62, Seconds(0, 1), Seconds(1, 1), 127),
     MidiNote(62, Seconds(3, 8), Seconds(3, 8), 64),
     MidiNote(64, Seconds(1, 4), Seconds(7, 8), 100),
     MidiNote(64, Seconds(-1, 4), Seconds(1, 4), 90),
     MidiNote(67, Seconds(3, 4), Seconds(1, 2), 200)}

\* SimpleMidiFiles of one or two instruments.
WriteFixtures ==
    {[Fixture("write", tpq, <<>>) EXCEPT
        !.midi = SimpleMidiFile(Rat(bpm, 1), tpq,
                    <<MidiInstrument("lead", 80, 0, ns)>> \o second)] :
        bpm \in {120, 90}, tpq \in {2},
        ns \in SeqsUpTo(WriteNotes, MaxNotes),
        second \in {<<>>,
                    <<MidiInstrument("pad", 89, 1,
                                     <<MidiNote(60, Seconds(0, 1), Seconds(1, 1), 70)>>)>>,
                    <<MidiInstrument("brass", 62, 16,
                                     <<MidiNote(60, Seconds(1, 4), Seconds(3, 4), 70)>>)>>}}

\* tests/test_cli.py, _write_test_midi: four one-bar chords of three notes at
\* 118 BPM and 480 ticks per quarter.
BarLength == RatMul(RatDiv(Rat(60, 1), Rat(118, 1)), Rat(4, 1))

Chords == << <<60, 64, 67>>, <<62, 65, 69>>, <<55, 59, 62>>, <<57, 60, 64>> >>

ChordNotes ==
    Flatten([index \in 1..Len(Chords) |->
                [p \in 1..3 |-> MidiNote(Chords[index][p],
                                         RatMul(Rat(index - 1, 1), BarLength),
                                         RatMul(Rat(index, 1), BarLength), 90)]])

ChordFixtures ==
    {[Fixture("chords", 480, <<>>) EXCEPT
        !.midi = SimpleMidiFile(Rat(118, 1), 480,
                                <<MidiInstrument("Test Piano", 0, 0, ChordNotes)>>)]}

\* HouseLoopOptions.target_bars
TargetBars == 8

\* HouseLoopOptions.swing
Swing == Rat(12, 100)

TempoFast == <<255, 81, 3, 0, 0, 1>>

\* 10001 microseconds per quarter: a beat of 0.01 s would make the duration of
\* the pluck on beat 3 exactly 0, where the rounding of the floats decides
\* whether it is kept.
TempoQuick == <<255, 81, 3, 0, 39, 17>>

TempoSlow == <<255, 81, 3, 244, 36, 0>>

\* A source track at 4 ticks per quarter: A minor in the first bar, with E
\* held into the second, then C and E in the third.  No note ends on a bar line
\* or lasts an odd number of eighths, where the rounding of the floats would
\* decide the bars and the weight _extract_roots gives it.
SourceTrack(first) ==
    first \o <<Raw(0, <<144, 57, 64>>), Raw(0, <<144, 60, 64>>), Raw(0, <<144, 64, 64>>),
               Raw(15, <<128, 57, 0>>), Raw(0, <<128, 60, 0>>), Raw(13, <<128, 64, 0>>),
               Raw(5, <<144, 48, 80>>), Raw(0, <<144, 52, 80>>), Raw(13, <<128, 48, 0>>),
               Raw(4, <<128, 52, 0>>)>>

SourceDefault == Fixture("loop", 4, <<SourceTrack(<<>>)>>)

SourceFast == Fixture("loop", 4, <<SourceTrack(<<Raw(0, TempoFast)>>)>>)

SourceQuick == Fixture("loop", 4, <<SourceTrack(<<Raw(0, TempoQuick)>>)>>)

SourceSlow == Fixture("loop", 4, <<SourceTrack(<<Raw(0, TempoSlow)>>)>>)

SourceEmpty == Fixture("loop", 480, <<>>)

SourceChords == CHOOSE sc \in ChordFixtures : TRUE

\* The random.Random of three seeds, as the values it returns at each place.
SeedPlain ==
    [adjust |-> <<None>>, lift |-> <<None>>, repeat |-> <<None>>, template |-> <<2>>,
     shimmer |-> <<FALSE>>, add_beat |-> <<FALSE>>, drop_first |-> <<TRUE>>,
     stab_velocity |-> <<75>>, jitter |-> <<-5>>, octave |-> <<FALSE>>, jump |-> <<FALSE>>,
     pluck_velocity |-> <<60>>, pad_velocity |-> <<50>>, pad_down |-> <<FALSE>>]

SeedMixed ==
    [adjust |-> <<5, None, 1>>, lift |-> <<None, 2, None, None>>, repeat |-> <<0, None>>,
     template |-> <<0, 1, 2, 3>>, shimmer |-> <<TRUE, FALSE>>,
     add_beat |-> <<TRUE, FALSE, TRUE>>, drop_first |-> <<FALSE, TRUE>>,
     stab_velocity |-> <<109, 75, 90>>, jitter |-> <<5, -5, 0>>, octave |-> <<TRUE, FALSE>>,
     jump |-> <<TRUE, FALSE, FALSE>>, pluck_velocity |-> <<89, 60>>,
     pad_velocity |-> <<69, 50>>, pad_down |-> <<TRUE, FALSE>>]

SeedFull ==
    [adjust |-> <<4>>, lift |-> <<1>>, repeat |-> <<2>>, template |-> <<3>>,
     shimmer |-> <<TRUE>>, add_beat |-> <<TRUE>>, drop_first |-> <<FALSE>>,
     stab_velocity |-> <<109>>, jitter |-> <<5>>, octave |-> <<TRUE>>, jump |-> <<TRUE>>,
     pluck_velocity |-> <<89>>, pad_velocity |-> <<69>>, pad_down |-> <<TRUE>>]

\* The runs of generate_house_loop: a source file, a mode and a seed.
LoopRuns ==
    {<<SourceChords, "euphoric", SeedMixed>>, <<SourceChords, "auto", SeedPlain>>,
     <<SourceDefault, "minor_fifth", SeedFull>>, <<SourceDefault, "auto", SeedPlain>>,
     <<SourceSlow, "auto", SeedMixed>>, <<SourceEmpty, "auto", SeedPlain>>}
    \cup {<<source, mode, SeedMixed>> :
            source \in {SourceFast, SourceQuick}, mode \in {"auto", "euphoric", "minor_fifth"}}
    \cup {<<SourceQuick, "auto", seed>> : seed \in {SeedPlain, SeedFull}}

Fixtures ==
    NotesFixtures \cup KeysFixtures \cup TempoFixtures \cup StatusFixtures
    \cup CutFixtures \cup ChunkFixtures \cup DivisionFixtures \cup WriteFixtures
    \cup QuietFixtures \cup SkipFixtures \cup ZeroFixtures \cup ChordFixtures
    \cup MergeFixtures

\* 2^28: four 7-bit groups
VlqLimit == 128 * 128 * 128 * 128

VlqValues ==
    {x \in UNION {(b - VlqWindow)..(b + VlqWindow) : b \in {0, 128, 16384, 2097152, VlqLimit}} :
        0 <= x /\ x < VlqLimit}

(***************************************************************************)
(* The state machine                                                       *)
(***************************************************************************)
NoVlq == [value |-> 0, bytes |-> <<>>, read |-> <<>>]

NoLoop == [phase |-> "none"]

Blank ==
    /\ cursor = 0
    /\ num_tracks = 0
    /\ track_no = 0
    /\ ticks_per_quarter = 0
    /\ tempo_us = 0
    /\ events = <<>>
    /\ track_data = <<>>
    /\ st = ParseStart
    /\ pos = 0
    /\ active = <<>>
    /\ notes = <<>>
    /\ result = NoResult

Init ==
    /\ scenario \in Fixtures
    /\ midi = scenario.midi
    /\ pc = IF scenario.midi /= NoFile THEN "write" ELSE "load"
    /\ data = IF scenario.midi /= NoFile THEN <<>> ELSE FileBytes(scenario)
    /\ vlq = NoVlq
    /\ loop = NoLoop
    /\ Blank

\* SimpleMidiFile.write, and the file then given to load_midi.
Write ==
    /\ pc = "write"
    /\ data' = _encode_midi(midi)
    /\ pc' = "load"
    /\ UNCHANGED <<midi, cursor, num_tracks, track_no, ticks_per_quarter, tempo_us, events,
                   track_data, st, pos, active, notes, result, scenario, vlq, loop>>

\* load_midi, lines 59-82.
LoadHeader ==
    /\ pc = "load"
    /\ LET h == ReadHeader(data)
       IN IF h.ok
          THEN /\ pc' = "tracks"
               /\ cursor' = h.cursor
               /\ num_tracks' = h.num_tracks
               /\ ticks_per_quarter' = h.ticks_per_quarter
               /\ tempo_us' = DefaultTempoUs
               /\ events' = <<>>
               /\ track_no' = 0
          ELSE /\ pc' = "error"
               /\ UNCHANGED <<cursor, num_tracks, ticks_per_quarter, tempo_us, events,
                              track_no>>
    /\ UNCHANGED <<midi, data, track_data, st, pos, active, notes, result, scenario, vlq,
                   loop>>

\* load_midi, lines 82-90 up to the call, and _parse_track, lines 122-125.
BeginTrack ==
    /\ pc = "tracks"
    /\ track_no < num_tracks
    /\ LET c == ReadChunk(data, cursor)
       IN IF c.ok
          THEN /\ pc' = "parse"
               /\ track_no' = track_no + 1
               /\ cursor' = c.cursor
               /\ track_data' = c.track_data
               /\ st' = TrackEntry(st)
          ELSE /\ pc' = "error"
               /\ UNCHANGED <<track_no, cursor, track_data, st>>
    /\ UNCHANGED <<midi, data, num_tracks, ticks_per_quarter, tempo_us, events, pos, active,
                   notes, result, scenario, vlq, loop>>

\* _parse_track: one iteration of its while loop, lines 127-175.
ParseStep ==
    /\ pc = "parse"
    /\ st.flow = "loop"
    /\ st.index < Len(track_data)
    /\ st' = ParseEvent(track_data, st)
    /\ UNCHANGED <<pc, midi, data, cursor, num_tracks, track_no, ticks_per_quarter, tempo_us,
                   events, track_data, pos, active, notes, result, scenario, vlq, loop>>

\* _parse_track returns or raises, lines 139 and 176; events.extend, line 90.
EndTrack ==
    /\ pc = "parse"
    /\ ~(st.flow = "loop" /\ st.index < Len(track_data))
    /\ IF st.flow = "raise"
       THEN pc' = "error" /\ UNCHANGED events
       ELSE pc' = "tracks" /\ events' = events \o st.events
    /\ UNCHANGED <<midi, data, cursor, num_tracks, track_no, ticks_per_quarter, tempo_us,
                   track_data, st, pos, active, notes, result, scenario, vlq, loop>>

\* load_midi, lines 92-94.
SortEvents ==
    /\ pc = "tracks"
    /\ track_no >= num_tracks
    /\ events' = MergeEvents(events)
    /\ active' = <<>>
    /\ notes' = <<>>
    /\ pos' = 0
    /\ pc' = "pair"
    /\ UNCHANGED <<midi, data, cursor, num_tracks, track_no, ticks_per_quarter, tempo_us,
                   track_data, st, result, scenario, vlq, loop>>

\* load_midi: one iteration of "for tick, kind, payload in events", lines 96-114.
ProcessEvent ==
    /\ pc = "pair"
    /\ pos < Len(events)
    /\ pos' = pos + 1
    /\ LET p == PairStep([tempo_us |-> tempo_us, active |-> active, notes |-> notes,
                          ok |-> TRUE], events[pos + 1], ticks_per_quarter)
       IN /\ tempo_us' = p.tempo_us
          /\ active' = p.active
          /\ notes' = p.notes
          /\ pc' = IF p.ok THEN "pair" ELSE "error"
    /\ UNCHANGED <<midi, data, cursor, num_tracks, track_no, ticks_per_quarter, events,
                   track_data, st, result, scenario, vlq, loop>>

\* load_midi, lines 116-118.
Finish ==
    /\ pc = "pair"
    /\ pos >= Len(events)
    /\ IF tempo_us = 0
       THEN pc' = "error" /\ UNCHANGED result
       ELSE pc' = "done" /\ result' = Returned(tempo_us, ticks_per_quarter, notes)
    /\ UNCHANGED <<midi, data, cursor, num_tracks, track_no, ticks_per_quarter, tempo_us,
                   events, track_data, st, pos, active, notes, scenario, vlq, loop>>

Next ==
    \/ Write
    \/ LoadHeader
    \/ BeginTrack
    \/ ParseStep
    \/ EndTrack
    \/ SortEvents
    \/ ProcessEvent
    \/ Finish

Spec == Init /\ [][Next]_vars

\* load_midi on the files whose note events meet in the pairing loop: one pitch
\* on two channels, two tracks merged, tempo changes, note-ons of velocity 0,
\* and the written test file.
PairFixtures ==
    KeysFixtures \cup MergeFixtures \cup TempoFixtures \cup ZeroFixtures \cup ChordFixtures

InitPair ==
    /\ scenario \in PairFixtures
    /\ midi = scenario.midi
    /\ pc = IF scenario.midi /= NoFile THEN "write" ELSE "load"
    /\ data = IF scenario.midi /= NoFile THEN <<>> ELSE FileBytes(scenario)
    /\ vlq = NoVlq
    /\ loop = NoLoop
    /\ Blank

SpecPair == InitPair /\ [][Next]_vars

\* The VLQ codec on its own: encode a value, then read it back.
InitVlq ==
    /\ pc = "vlq"
    /\ vlq \in {[NoVlq EXCEPT !.value = x] : x \in VlqValues}
    /\ scenario = Fixture("vlq", 0, <<>>)
    /\ midi = NoFile
    /\ data = <<>>
    /\ loop = NoLoop
    /\ Blank

EncodeVlq ==
    /\ pc = "vlq"
    /\ vlq' = [vlq EXCEPT !.bytes = _encode_vlq(vlq.value)]
    /\ pc' = "vlq_encoded"
    /\ UNCHANGED <<midi, data, cursor, num_tracks, track_no, ticks_per_quarter, tempo_us,
                   events, track_data, st, pos, active, notes, result, scenario, loop>>

ReadVlq ==
    /\ pc = "vlq_encoded"
    /\ vlq' = [vlq EXCEPT !.read = _read_vlq(vlq.bytes, 0)]
    /\ pc' = "vlq_done"
    /\ UNCHANGED <<midi, data, cursor, num_tracks, track_no, ticks_per_quarter, tempo_us,
                   events, track_data, st, pos, active, notes, result, scenario, loop>>

NextVlq == EncodeVlq \/ ReadVlq

SpecVlq == InitVlq /\ [][NextVlq]_vars

(***************************************************************************)
(* generate_house_loop on a loaded source, the loop written and read back  *)
(***************************************************************************)
InitLoop ==
    /\ \E run \in LoopRuns :
          /\ scenario = run[1]
          /\ loop = [phase |-> "source",
                     options |-> HouseLoopOptions(run[2], Swing, run[3], None, TargetBars)]
    /\ midi = scenario.midi
    /\ pc = IF scenario.midi /= NoFile THEN "write" ELSE "load"
    /\ data = IF scenario.midi /= NoFile THEN <<>> ELSE FileBytes(scenario)
    /\ vlq = NoVlq
    /\ Blank

\* generate_house_loop, lines 81-100, and _render_loop, lines 288-304.
GenerateLoop ==
    /\ pc = "done"
    /\ loop.phase = "source"
    /\ LET options == loop.options
           rng == options.seed
           loaded == result
           tempo == _resolve_tempo(loaded, options.tempo)
           note_infos == _collect_notes(loaded)
           bar_length == RatMul(RatDiv(Rat(60, 1), tempo), Rat(4, 1))
           beat_length == RatDiv(Rat(60, 1), tempo)
           mode == _resolve_mode(options.mode, note_infos)
           base_register == _estimate_register(note_infos)
           extracted == _extract_roots(note_infos, bar_length, options.target_bars)
           base_roots == IF extracted = <<>> THEN _default_roots(mode) ELSE extracted
           progression_roots == _expand_roots(base_roots, options.target_bars, mode, rng)
           chords == [i \in 1..Len(progression_roots) |->
                         _build_chord(progression_roots[i], base_register, mode, rng, i - 1)]
           swing == IF RatLess(options.swing, Rat(0, 1)) THEN Rat(0, 1)
                    ELSE RatMin(Rat(4, 10), options.swing)
       IN loop' = [phase |-> "render", options |-> options, tempo |-> tempo, mode |-> mode,
                   chords |-> chords, swing |-> swing, beat_length |-> beat_length,
                   bar_length |-> bar_length, bar_index |-> 0, stabs |-> <<>>,
                   plucks |-> <<>>, pads |-> <<>>]
    /\ pc' = "render"
    /\ UNCHANGED <<midi, data, cursor, num_tracks, track_no, ticks_per_quarter, tempo_us,
                   events, track_data, st, pos, active, notes, result, scenario, vlq>>

\* _render_loop: one iteration of "for bar_index, chord in enumerate(chords)",
\* lines 306-312.
RenderBar ==
    /\ pc = "render"
    /\ loop.bar_index < Len(loop.chords)
    /\ LET rng == loop.options.seed
           bar_index == loop.bar_index
           chord == loop.chords[bar_index + 1]
           bar_start == RatMul(Rat(bar_index, 1), loop.bar_length)
           bar_end == RatAdd(bar_start, loop.bar_length)
       IN loop' = [loop EXCEPT
                     !.stabs = @ \o _render_stabs(chord, bar_start, bar_end, loop.beat_length,
                                                  loop.swing, rng, bar_index),
                     !.plucks = @ \o _render_plucks(chord, bar_start, bar_end,
                                                    loop.beat_length, loop.swing, rng,
                                                    bar_index),
                     !.pads = @ \o _render_pads(chord, bar_start, bar_end, rng, bar_index),
                     !.bar_index = @ + 1]
    /\ UNCHANGED <<pc, midi, data, cursor, num_tracks, track_no, ticks_per_quarter, tempo_us,
                   events, track_data, st, pos, active, notes, result, scenario, vlq>>

\* _render_loop, lines 314-319, and generate_house_loop, line 101: the loop is
\* returned, to be written.
EndRender ==
    /\ pc = "render"
    /\ loop.bar_index >= Len(loop.chords)
    /\ midi' = SimpleMidiFile(loop.tempo, 480,
                              <<MidiInstrument("House Stabs", 62, 0, loop.stabs),
                                MidiInstrument("Pluck Arp", 80, 1, loop.plucks),
                                MidiInstrument("Airy Pad", 89, 2, loop.pads)>>)
    /\ loop' = [loop EXCEPT !.phase = "written"]
    /\ pc' = "write"
    /\ UNCHANGED <<data, cursor, num_tracks, track_no, ticks_per_quarter, tempo_us, events,
                   track_data, st, pos, active, notes, result, scenario, vlq>>

NextLoop ==
    \/ Write
    \/ LoadHeader
    \/ BeginTrack
    \/ ParseStep
    \/ EndTrack
    \/ SortEvents
    \/ ProcessEvent
    \/ Finish
    \/ GenerateLoop
    \/ RenderBar
    \/ EndRender

SpecLoop == InitLoop /\ [][NextLoop]_vars

(***************************************************************************)
(* Properties                                                              *)
(***************************************************************************)
Range(q) == {q[i] : i \in 1..Len(q)}

IsNoteOn(e) == e.kind = "note" /\ e.payload[1] = 144 /\ e.payload[4] > 0

IsNoteOff(e) == e.kind = "note" /\ ~IsNoteOn(e)

KeyOf(e) == <<e.payload[2], e.payload[3]>>

\* The notes of every instrument of a SimpleMidiFile, in order.
WrittenNotes(m) == Flatten([i \in 1..Len(m.instruments) |-> m.instruments[i].notes])

\* One tick of a file written at tempo_bpm and tpq ticks per quarter, in seconds.
TickSeconds(tempo_bpm, tpq) == RatDiv(RatDiv(Rat(60, 1), tempo_bpm), Rat(tpq, 1))

Within(a, b, tol) == ~RatLess(tol, RatAbs(RatSub(a, b)))

Injective(f) == \A i, j \in DOMAIN f : f[i] = f[j] => i = j

\* The round trip of the written notes w through the file: load_midi returns,
\* and its notes match w one to one in pitch and velocity, with start and end
\* within one tick.
RoundTrips(w) ==
    LET tol == TickSeconds(midi.tempo, midi.ticks_per_quarter)
    IN /\ pc = "done"
       /\ Len(result.notes) = Len(w)
       /\ \E f \in [1..Len(w) -> 1..Len(w)] :
             /\ Injective(f)
             /\ \A i \in 1..Len(w) :
                   /\ result.notes[f[i]].pitch = w[i].pitch
                   /\ result.notes[f[i]].velocity = w[i].velocity
                   /\ Within(result.notes[f[i]].start, w[i].start, tol)
                   /\ Within(result.notes[f[i]].end, w[i].end, tol)

\* Written notes with pitch in 0..127, velocity in lo..127 and end >= start >= 0.
ValidNotes(w, lo) ==
    \A n \in Range(w) : /\ n.pitch \in 0..127
                        /\ n.velocity \in lo..127
                        /\ ~RatLess(n.start, Rat(0, 1))
                        /\ ~RatLess(n.end, n.start)

\* C1: a written file read back has exactly one loaded note per written note,
\* with the same pitch and velocity and with start and end within one tick of
\* the original, whenever every written note has pitch and velocity in 0..127
\* and end >= start >= 0.
C1_RoundTrip ==
    (/\ pc \in {"done", "error"}
     /\ scenario.family = "write"
     /\ ValidNotes(WrittenNotes(midi), 0))
    => RoundTrips(WrittenNotes(midi))

\* C1 for notes that sound (velocity 1..127) and last at least one tick only.
\* A velocity-0 note is written as a note-on of velocity 0, which the reader
\* takes for a note-off, and a note shorter than a tick is written one tick
\* long; what is left fails on two notes of one key that touch or overlap.
C1_RoundTripOfLongAudibleNotes ==
    (/\ pc \in {"done", "error"}
     /\ scenario.family = "write"
     /\ ValidNotes(WrittenNotes(midi), 1)
     /\ \A n \in Range(WrittenNotes(midi)) :
           ~RatLess(RatSub(n.end, n.start),
                    TickSeconds(midi.tempo, midi.ticks_per_quarter)))
    => RoundTrips(WrittenNotes(midi))

\* C2: for 0 <= x < 2^28, reading the encoding of x back from index 0 gives x
\* and the index just past the encoding; the encoding has the minimal number of
\* bytes (1 below 2^7, 2 below 2^14, 3 below 2^21, else 4), the continuation
\* bit on every byte but the last, and zero is the single byte 0.
C2_VlqRoundTrip ==
    /\ pc \in {"vlq_encoded", "vlq_done"} =>
          /\ Len(vlq.bytes) = (IF vlq.value < 128 THEN 1
                               ELSE IF vlq.value < 16384 THEN 2
                               ELSE IF vlq.value < 2097152 THEN 3 ELSE 4)
          /\ \A i \in 1..Len(vlq.bytes) :
                /\ vlq.bytes[i] \in 0..255
                /\ (vlq.bytes[i] >= 128) = (i < Len(vlq.bytes))
          /\ (vlq.value = 0 => vlq.bytes = <<0>>)
    /\ pc = "vlq_done" => vlq.read = <<vlq.value, Len(vlq.bytes)>>

C2_Witness == pc = "vlq_done" /\ vlq.value = VlqLimit - 1 /\ Len(vlq.bytes) = 4

\* The merged events that are tempo events, by their place in the merged list.
TempoPlaces == {i \in 1..Len(events) : events[i].kind = "tempo"}

\* C3: the tempo returned is that of the first tempo event of the merged event
\* list, whatever its value; every later tempo event is ignored.
C3_FirstTempoWins ==
    (pc = "done" /\ TempoPlaces /= {}) =>
        LET first == CHOOSE i \in TempoPlaces : \A j \in TempoPlaces : i <= j
        IN result.tempo = Rat(60000000, events[first].payload[1])

\* The offsets at which an event of a raw track ends (and the next begins).
Boundaries(evs) == {Len(RawTrack(SubSeq(evs, 1, k))) : k \in 0..Len(evs)}

\* C4: a track payload that ends inside an event makes _parse_track fail and
\* load_midi abort: nothing parsed before the truncation point is returned.
C4_TruncationFatal ==
    (/\ scenario.family = "cut"
     /\ scenario.cut \notin Boundaries(scenario.tracks[Len(scenario.tracks)]))
    => /\ pc /= "done"
       /\ result = NoResult

\* C5: a chunk is parsed only if it begins with "MTrk" and its declared length
\* fits within the bytes remaining in the file.
C5_ChunkLengthChecked ==
    pc \in {"parse", "tracks", "pair", "done"} => cursor <= Len(data)

\* The actions of load_midi, taken one after another, end as the operator
\* load_midi says: with the LoadedMidi it gives, or in an error when it raises.
StepwiseLoadAgrees ==
    /\ pc = "done" => result = load_midi(data)
    /\ pc = "error" => load_midi(data) = Raised

\* The number of entries on the stack of key after the first n merged events,
\* counted without the stacks: a note-on adds one, a note-off removes one if
\* there is one.
Depth(n, key) ==
    LET f[i \in 0..n] ==
            IF i = 0 THEN 0
            ELSE IF events[i].kind = "note" /\ KeyOf(events[i]) = key
                 THEN IF IsNoteOn(events[i]) THEN f[i - 1] + 1 ELSE Max(0, f[i - 1] - 1)
                 ELSE f[i - 1]
    IN f[n]

\* The merged event at place n is a note-off that finds an entry on its stack.
Closes(n) == IsNoteOff(events[n]) /\ Depth(n - 1, KeyOf(events[n])) > 0

\* The number of notes the first n merged events have produced.
Emitted(n) == Cardinality({m \in 1..n : Closes(m)})

\* No event of key lies strictly between places i and l except at the places in S.
OnlyAt(key, i, l, S) ==
    \A m \in (i + 1)..(l - 1) :
        (events[m].kind = "note" /\ KeyOf(events[m]) = key) => m \in S

\* The places i < j < k < l of two note-ons and then two note-offs of one key,
\* with no other event of that key in between.
OnOnOffOff(i, j, k, l) ==
    /\ i < j /\ j < k /\ k < l
    /\ IsNoteOn(events[i]) /\ IsNoteOn(events[j])
    /\ IsNoteOff(events[k]) /\ IsNoteOff(events[l])
    /\ KeyOf(events[j]) = KeyOf(events[i])
    /\ KeyOf(events[k]) = KeyOf(events[i])
    /\ KeyOf(events[l]) = KeyOf(events[i])
    /\ OnlyAt(KeyOf(events[i]), i, l, {j, k})

\* The note of a note-on and a note-off, timed at tempo t.
NoteOf(on, off, t) ==
    MidiNote(on.payload[3], _ticks_to_seconds(on.tick, t, ticks_per_quarter),
             _ticks_to_seconds(off.tick, t, ticks_per_quarter), on.payload[4])

\* C6: when two note-ons of a key at ticks t1 <= t2 are followed by two
\* note-offs at t3 <= t4, with no other event of the key in between, the first
\* note-off emits the note (t2, t3, velocity of the second note-on) and the
\* second emits (t1, t4, velocity of the first), and both are returned.
C6_LifoPairing ==
    /\ (pc = "pair" /\ pos >= 4) =>
          \A i, j, k \in 1..pos :
              OnOnOffOff(i, j, k, pos) =>
                  /\ Len(notes) = Emitted(pos)
                  /\ Emitted(k) >= 1 /\ Emitted(k) < Len(notes)
                  /\ notes[Len(notes)] = NoteOf(events[i], events[pos], tempo_us)
                  /\ \E t \in {DefaultTempoUs, tempo_us} :
                        notes[Emitted(k)] = NoteOf(events[j], events[k], t)
    /\ pc = "done" => /\ Len(result.notes) = Len(notes)
                      /\ Range(result.notes) = Range(notes)

C6_Witness ==
    /\ pc = "pair"
    /\ \E i, j, k \in 1..pos :
          /\ OnOnOffOff(i, j, k, pos)
          /\ events[i].tick < events[j].tick
          /\ events[k].tick < events[pos].tick
          /\ events[i].payload[4] /= events[j].payload[4]
          /\ \E m \in (i + 1)..(pos - 1) : KeyOf(events[m]) /= KeyOf(events[i])

\* The events of a raw track with every status byte written out.
Explicit(evs) == [i \in 1..Len(evs) |-> [evs[i] EXCEPT !.elide = FALSE]]

\* Every event that omits its status byte follows an event of the same status.
ElidesRepeatsOnly(evs) ==
    \A i \in 1..Len(evs) : evs[i].elide => (i > 1 /\ evs[i - 1].msg[1] = evs[i].msg[1])

\* _parse_track is about to return or raise.
TrackParsed == pc = "parse" /\ ~(st.flow = "loop" /\ st.index < Len(track_data))

LastRawTrack == scenario.tracks[Len(scenario.tracks)]

\* C7: a track in which note-on/note-off events omit a status byte equal to
\* that of the event before them is parsed into the same events, at the same
\* ticks, as the track with every status byte written out.
C7_RunningStatus ==
    (/\ TrackParsed
     /\ scenario.family = "status"
     /\ track_no = Len(scenario.tracks)
     /\ ElidesRepeatsOnly(LastRawTrack))
    => /\ st.flow /= "raise"
       /\ st.events = _parse_track(RawTrack(Explicit(LastRawTrack))).events
       /\ st.tick = _parse_track(RawTrack(Explicit(LastRawTrack))).tick

C7_Witness ==
    /\ TrackParsed
    /\ scenario.family = "status"
    /\ track_no = Len(scenario.tracks)
    /\ ElidesRepeatsOnly(LastRawTrack)
    /\ Len(LastRawTrack) >= 2
    /\ ~LastRawTrack[1].elide
    /\ LastRawTrack[2].elide
    /\ Len(st.events) = Len(LastRawTrack)

\* The first event of a track's bytes has no status byte of its own.
FirstOmitsStatus(td) ==
    LET dv == _read_vlq(td, 0)
    IN dv[2] < Len(td) /\ td[dv[2] + 1] < 128

\* C8: each track is parsed from tick 0 with no running status, so a track
\* whose first event omits its status byte is rejected whatever the tracks
\* before it left, and a track's events depend on its own bytes only.
C8_StatusPrivateToTrack ==
    /\ (pc = "parse" /\ st.index = 0) => (st.running_status = None /\ st.tick = 0)
    /\ (pc = "parse" /\ st.index > 0 /\ FirstOmitsStatus(track_data)) =>
          (st.flow = "raise" /\ st.events = <<>>)
    /\ TrackParsed => st = _parse_track(track_data)
    /\ (pc \in {"tracks", "pair", "done"} /\ track_no >= 1) =>
          ~FirstOmitsStatus(track_data)

C8_Witness ==
    /\ pc = "error"
    /\ track_no = 2
    /\ events /= <<>>
    /\ events[Len(events)].kind = "note"
    /\ FirstOmitsStatus(track_data)
    /\ st.flow = "raise"

\* The keys of the note events among the merged events.
Keys == {KeyOf(events[i]) : i \in {m \in 1..Len(events) : events[m].kind = "note"}}

\* The number of entries left on all stacks.
Dangling == Cardinality({<<key, d>> \in Keys \X (1..Len(events)) :
                            d <= Len(ActiveGet(active, key))})

\* The velocities of the note-ons of key among the merged events.
Velocities(key) ==
    {events[m].payload[4] : m \in {i \in 1..Len(events) :
                                       IsNoteOn(events[i]) /\ KeyOf(events[i]) = key}}

\* A returned note (which has no channel) of the pitch of key and of one of its
\* velocities can only be a note of key: no other channel plays that pitch at
\* one of these velocities.
TellsKey(key) ==
    \A other \in Keys :
        (other /= key /\ other[2] = key[2]) => Velocities(other) \cap Velocities(key) = {}

\* C9: a note-on with no later matching note-off produces no note: every note
\* returned comes from a note-off that found an entry on the stack of its key,
\* and the entries left on the stacks are dropped.
C9_DanglingDropped ==
    /\ pc = "pair" =>
          /\ Len(notes) = Emitted(pos)
          /\ \A key \in Keys : Len(ActiveGet(active, key)) = Depth(pos, key)
    /\ pc = "done" =>
          /\ Len(result.notes) = Emitted(Len(events))
          /\ \A key \in Keys : Len(ActiveGet(active, key)) = Depth(Len(events), key)
          /\ \A pitch \in {key[2] : key \in Keys} :
                Cardinality({i \in 1..Len(result.notes) : result.notes[i].pitch = pitch})
                = Cardinality({m \in 1..Len(events) : Closes(m) /\ KeyOf(events[m])[2] = pitch})
          /\ \A key \in Keys :
                TellsKey(key) =>
                    Cardinality({i \in 1..Len(result.notes) :
                                    /\ result.notes[i].pitch = key[2]
                                    /\ result.notes[i].velocity \in Velocities(key)})
                    = Cardinality({m \in 1..Len(events) : Closes(m) /\ KeyOf(events[m]) = key})
          /\ Len(result.notes) + Dangling
             = Cardinality({m \in 1..Len(events) : IsNoteOn(events[m])})

C9_Witness ==
    /\ pc = "done"
    /\ Len(result.notes) >= 1
    /\ \E key \in Keys : Len(ActiveGet(active, key)) >= 1
    /\ \E m \in 1..Len(events) : IsNoteOff(events[m]) /\ ~Closes(m)
    /\ Cardinality(Keys) >= 2

\* The division field of a file with the usual 6-byte header.
HeaderDivision(d) == FromBytes(Slice(d, 12, 14))

\* C10: a division field with its top bit set makes load_midi fail before any
\* track is parsed; nothing is returned.
C10_SmpteRejected ==
    (pc /= "write" /\ HeaderDivision(data) >= 32768) =>
        /\ pc \in {"load", "error"}
        /\ result = NoResult
        /\ track_no = 0
        /\ track_data = <<>>
        /\ events = <<>>
        /\ notes = <<>>

C10_Witness ==
    /\ pc = "error"
    /\ HeaderDivision(data) >= 32768
    /\ Slice(data, 0, 4) = MThd
    /\ Slice(data, 14, 18) = MTrk

\* The message of a raw event is a tempo meta event: FF 51 03 and three bytes.
IsTempoMsg(msg) == Len(msg) >= 3 /\ msg[1] = 255 /\ msg[2] = 81 /\ msg[3] = 3

\* No track of the scenario's file holds a tempo meta event.
NoTempoIn(sc) ==
    \A i \in 1..Len(sc.tracks) :
        \A j \in 1..Len(sc.tracks[i]) : ~IsTempoMsg(sc.tracks[i][j].msg)

\* C11: when no track of the file holds a tempo meta event (type 0x51 of
\* length 3), the tempo stays 500000 microseconds per quarter throughout and
\* the tempo returned is exactly 120 BPM, whatever else the file holds.
C11_DefaultTempo ==
    (midi = NoFile /\ NoTempoIn(scenario)) =>
        /\ pc \in {"tracks", "parse", "pair", "done"} => tempo_us = DefaultTempoUs
        /\ \A i \in 1..Len(events) : events[i].kind /= "tempo"
        /\ pc = "done" => result.tempo = Rat(120, 1)

C11_Witness ==
    /\ pc = "done"
    /\ scenario.family = "quiet"
    /\ NoTempoIn(scenario)
    /\ Len(scenario.tracks) = 2
    /\ \E j \in 1..Len(LastRawTrack) :
          LastRawTrack[j].msg[1] = 255 /\ LastRawTrack[j].msg[2] = 81
    /\ Len(result.notes) >= 1
    /\ result.tempo = Rat(120, 1)

\* A raw event with a note-off status (0x80 | channel).
IsRawNoteOff(ev) == ev.msg[1] \in 128..143

\* A merged event that is a note-on (0x90 | channel) of velocity 0.
IsZeroNoteOn(e) == e.kind = "note" /\ e.payload[1] = 144 /\ e.payload[4] = 0

\* The raw events evs with the j-th, a note-off, replaced by the note-on of
\* velocity 0 of the same channel and pitch.  The new event carries its status
\* byte, and so does the event after it, which thereby stays the event it was.
AsNoteOnZero(evs, j) ==
    [k \in 1..Len(evs) |->
        IF k = j
        THEN [delta |-> evs[j].delta, msg |-> <<evs[j].msg[1] + 16, evs[j].msg[2], 0>>,
              elide |-> FALSE]
        ELSE IF k = j + 1 THEN [evs[k] EXCEPT !.elide = FALSE]
        ELSE evs[k]]

Replaced(sc, i, j) == [sc EXCEPT !.tracks[i] = AsNoteOnZero(@, j)]

\* Every event of the scenario that omits its status byte repeats the status
\* of the event before it.
WellElided(sc) == \A i \in 1..Len(sc.tracks) : ElidesRepeatsOnly(sc.tracks[i])

\* C12: a note-on of velocity 0 acts as a note-off.  No stack ever holds an
\* entry of velocity 0, a note-on of velocity 0 takes one entry off the stack
\* of its key when there is one, and the file with any one of its note-off
\* events replaced by the note-on of velocity 0 of that channel and pitch
\* loads to the same result.
C12_ZeroVelocityIsNoteOff ==
    /\ \A key \in DOMAIN active :
          \A n \in 1..Len(active[key]) : active[key][n][2] > 0
    /\ (pc = "pair" /\ pos >= 1 /\ IsZeroNoteOn(events[pos])) =>
          Len(ActiveGet(active, KeyOf(events[pos])))
          = Max(0, Depth(pos - 1, KeyOf(events[pos])) - 1)
    /\ (pc = "done" /\ WellElided(scenario)) =>
          \A i \in 1..Len(scenario.tracks) :
              \A j \in 1..Len(scenario.tracks[i]) :
                  IsRawNoteOff(scenario.tracks[i][j]) =>
                      load_midi(FileBytes(Replaced(scenario, i, j))) = result

C12_Witness ==
    /\ pc = "done"
    /\ scenario.family = "zero"
    /\ \E m, n \in 1..Len(events) :
          /\ IsZeroNoteOn(events[m]) /\ Closes(m)
          /\ IsRawNoteOff(LastRawTrack[n])
          /\ LastRawTrack[n].msg[3] > 0
    /\ Len(result.notes) = 1

\* The rank of a parsed event among the events of one tick of a written track:
\* program-change, then note-on (0x90), then note-off (0x80).
Priority(e) == IF e.kind = "program" THEN 0 ELSE IF e.payload[1] = 144 THEN 1 ELSE 2

\* The instrument whose track load_midi is parsing (the first track is the
\* tempo track).
ParsedInstrument == midi.instruments[track_no - 1]

\* _parse_track is about to return the events of a written instrument track.
InstrumentTrackParsed == TrackParsed /\ midi /= NoFile /\ track_no >= 2

\* C13: in a written instrument track the delta-times are >= 0 and the ticks
\* never fall, the first event is the program-change at tick 0 (the only one),
\* and among the events of one tick every note-on comes before every note-off.
C13_TrackOrder ==
    InstrumentTrackParsed =>
        LET items == TrackItems(ParsedInstrument, midi.tempo, midi.ticks_per_quarter)
            n == Len(st.events)
        IN /\ st.flow = "loop"
           /\ n = 1 + 2 * Len(ParsedInstrument.notes)
           /\ Len(items) = n
           /\ items[1][1] = 0
           /\ \A i \in 2..n : items[i][1] - items[i - 1][1] >= 0
           /\ \A i \in 1..n : st.events[i].tick = items[i][1]
           /\ st.events[1].kind = "program" /\ st.events[1].tick = 0
           /\ \A i \in 2..n : st.events[i].kind = "note"
           /\ \A i \in 2..n : st.events[i - 1].tick <= st.events[i].tick
           /\ \A i, j \in 1..n :
                 (i < j /\ st.events[i].tick = st.events[j].tick)
                 => Priority(st.events[i]) <= Priority(st.events[j])

C13_Witness ==
    /\ InstrumentTrackParsed
    /\ \E i \in 2..(Len(st.events) - 1) :
          /\ st.events[i].tick > 0
          /\ st.events[i].tick = st.events[i + 1].tick
          /\ Priority(st.events[i]) = 1
          /\ Priority(st.events[i + 1]) = 2
          /\ st.events[i - 1].tick < st.events[i].tick

\* The number of places of the sequence q that hold x.
Count(q, x) == Cardinality({i \in 1..Len(q) : q[i] = x})

\* The note-on and the note-off a written track must hold for a note whose
\* note-on is at tick s and whose note-off is at tick e.
ExpectedOn(note, channel, s) ==
    Event(s, "note", <<144, channel % 16, note.pitch % 128, Max(0, Min(127, note.velocity))>>)

ExpectedOff(note, channel, e) == Event(e, "note", <<128, channel % 16, note.pitch % 128, 0>>)

\* C14: every note given to the writer, also one with end <= start or with a
\* negative start, has its note-on at a tick >= 0 and its note-off at least
\* one tick later, and the written track holds exactly these events.
C14_MinimumDuration ==
    InstrumentTrackParsed =>
        LET ins == ParsedInstrument
            s == [k \in 1..Len(ins.notes) |->
                    StartTick(ins.notes[k], midi.tempo, midi.ticks_per_quarter)]
            e == [k \in 1..Len(ins.notes) |->
                    EndTick(ins.notes[k], midi.tempo, midi.ticks_per_quarter)]
            expected == Flatten([k \in 1..Len(ins.notes) |->
                            <<ExpectedOn(ins.notes[k], ins.channel, s[k]),
                              ExpectedOff(ins.notes[k], ins.channel, e[k])>>])
        IN /\ \A k \in 1..Len(ins.notes) : s[k] >= 0 /\ e[k] >= s[k] + 1
           /\ Len(st.events) = Len(expected) + 1
           /\ \A x \in Range(expected) : Count(st.events, x) = Count(expected, x)

C14_Witness ==
    /\ InstrumentTrackParsed
    /\ \E n \in Range(ParsedInstrument.notes) :
          /\ RatLess(n.end, n.start)
          /\ _seconds_to_ticks(n.end, midi.tempo, midi.ticks_per_quarter)
             < StartTick(n, midi.tempo, midi.ticks_per_quarter)
          /\ EndTick(n, midi.tempo, midi.ticks_per_quarter)
             = StartTick(n, midi.tempo, midi.ticks_per_quarter) + 1
    /\ \E n \in Range(ParsedInstrument.notes) :
          /\ _seconds_to_ticks(n.start, midi.tempo, midi.ticks_per_quarter) < 0
          /\ StartTick(n, midi.tempo, midi.ticks_per_quarter) = 0

\* The declared length and the payload of the chunk at offset c of d.
ChunkLength(d, c) == FromBytes(Slice(d, c + 4, c + 8))

ChunkPayload(d, c) == Slice(d, c + 8, c + 8 + ChunkLength(d, c))

\* The offsets of the first n chunks that follow a 14-byte header chunk, and
\* (at n + 1) the offset just past the last of them.
ChunkOffsets(d, n) ==
    LET f[i \in 1..(n + 1)] == IF i = 1 THEN 14 ELSE f[i - 1] + 8 + ChunkLength(d, f[i - 1])
    IN f

\* q ends with the bytes of tail.
EndsWith(q, tail) ==
    Len(q) >= Len(tail) /\ SubSeq(q, Len(q) - Len(tail) + 1, Len(q)) = tail

\* C15: the bytes written for n instruments are an "MThd" chunk of length 6
\* with format 1, track count n + 1 and division ticks_per_quarter, then
\* exactly n + 1 "MTrk" chunks and nothing more: the tempo track, then one
\* track per instrument in order.  Each chunk's length is the number of
\* payload bytes that follow it, and each payload ends with 00 FF 2F 00.
C15_FileLayout ==
    (midi /= NoFile /\ pc /= "write") =>
        LET n == Len(midi.instruments)
            off == ChunkOffsets(data, n + 1)
        IN /\ Slice(data, 0, 4) = <<77, 84, 104, 100>>
           /\ FromBytes(Slice(data, 4, 8)) = 6
           /\ FromBytes(Slice(data, 8, 10)) = 1
           /\ FromBytes(Slice(data, 10, 12)) = n + 1
           /\ FromBytes(Slice(data, 12, 14)) = midi.ticks_per_quarter
           /\ \A i \in 1..(n + 1) :
                 /\ Slice(data, off[i], off[i] + 4) = <<77, 84, 114, 107>>
                 /\ off[i] + 8 + ChunkLength(data, off[i]) <= Len(data)
                 /\ EndsWith(ChunkPayload(data, off[i]), <<0, 255, 47, 0>>)
           /\ off[n + 2] = Len(data)
           /\ Len(ChunkPayload(data, off[1])) = 19
           /\ SubSeq(ChunkPayload(data, off[1]), 1, 12)
              = <<0, 255, 88, 4, 4, 2, 24, 8, 0, 255, 81, 3>>
           /\ \A i \in 1..n :
                 SubSeq(ChunkPayload(data, off[i + 1]), 1, 3)
                 = <<0, 192 + (midi.instruments[i].channel % 16),
                     midi.instruments[i].program % 128>>

C15_Witness ==
    /\ pc = "load"
    /\ scenario.family = "write"
    /\ Len(midi.instruments) = 2
    /\ midi.instruments[2].channel = 16
    /\ Len(midi.instruments[1].notes) = 2
    /\ Len(data) = 14 + (8 + 19) + (8 + 3 + 16 + 4) + (8 + 3 + 8 + 4)

\* The latest end among the notes returned.
MaxEnd(ns) == CHOOSE x \in {ns[i].end : i \in 1..Len(ns)} :
                 \A i \in 1..Len(ns) : ~RatLess(x, ns[i].end)

\* Four bars at 118 BPM, in seconds.
FourBars == RatMul(Rat(4, 1), BarLength)

\* The test file has been written and load_midi has run to its end.
ChordsLoaded == scenario.family = "chords" /\ pc \in {"done", "error"}

\* C16 as claimed: the file of the four chords at 118 BPM and division 480
\* loads to exactly 12 notes, a tempo equal to 118.0 and a latest note end
\* within 0.01 s of four bars.
C16_ChordsScenario ==
    ChordsLoaded =>
        /\ pc = "done"
        /\ Len(result.notes) = 12
        /\ result.tempo = Rat(118, 1)
        /\ Within(MaxEnd(result.notes), FourBars, Rat(1, 100))

\* C16 as amended: the tempo read back is 60,000,000 / 508475, the tempo of
\* the whole number of microseconds per quarter the file stores, which is
\* within 0.001 of 118 but not 118.0.
C16_ChordsScenarioStoredTempo ==
    ChordsLoaded =>
        /\ pc = "done"
        /\ Len(result.notes) = 12
        /\ tempo_us = 508475
        /\ result.tempo = Rat(60000000, 508475)
        /\ result.tempo /= Rat(118, 1)
        /\ Within(result.tempo, Rat(118, 1), Rat(1, 1000))
        /\ Within(MaxEnd(result.notes), FourBars, Rat(1, 100))

C16_Witness ==
    /\ ChordsLoaded
    /\ pc = "done"
    /\ Len(result.notes) = 12
    /\ Len(events) = 26
    /\ result.ticks_per_quarter = 480
    /\ MaxEnd(result.notes) = _ticks_to_seconds(7680, 508475, 480)

\* The tempo, in microseconds per quarter, that a result's tempo stands for.
ReportedTempoUs(r) == RatDiv(Rat(60000000, 1), r.tempo)

\* The note n is that of a note-on and a later note-off of its key among the
\* merged events, both timed at tempo t.
TimedAt(n, t) ==
    \E i, j \in 1..Len(events) :
        /\ i < j
        /\ IsNoteOn(events[i]) /\ IsNoteOff(events[j])
        /\ KeyOf(events[i]) = KeyOf(events[j])
        /\ n = NoteOf(events[i], events[j], t)

\* C18: every note returned has its start and its end computed from the ticks
\* of its note-on and note-off with the one tempo the same result reports,
\* T = 60,000,000 / result.tempo, wherever the tempo event lies in the merged
\* order.
C18_NotesTimedAtReportedTempo ==
    pc = "done" =>
        /\ ReportedTempoUs(result).den = 1
        /\ \A n \in Range(result.notes) : TimedAt(n, ReportedTempoUs(result).num)

\* A raw event that is not one of the discarded kinds.
IsBaseEvent(ev) == ev.msg \notin SkippedMsgs

\* A merged event that is a note or a tempo.
IsKept(e) == e.kind \in {"note", "tempo"}

\* The scenario without the discarded events put into its tracks.
Base(sc) ==
    [sc EXCEPT !.tracks = [i \in 1..Len(sc.tracks) |-> SelectSeq(sc.tracks[i], IsBaseEvent)]]

\* The places of the raw track evs that hold a discarded event.
SkippedPlaces(evs) == {k \in 1..Len(evs) : ~IsBaseEvent(evs[k])}

\* Every discarded event has delta-time 0 and stands right before an event
\* that carries its status byte.
InsertedBeforeExplicit(evs) ==
    \A k \in SkippedPlaces(evs) :
        /\ evs[k].delta = 0
        /\ k < Len(evs)
        /\ ~evs[k + 1].elide

\* C19: a well-formed non-tempo meta event, system-exclusive event,
\* program-change, channel-pressure, control-change, pitch-bend or aftertouch
\* message put at delta-time 0 right before an event with a status byte
\* leaves the parse in step: the track's notes and tempo events come out at
\* the same ticks, and load_midi returns the same result.
C19_SkippedEventsKeepCursor ==
    (scenario.family = "skip" /\ InsertedBeforeExplicit(LastRawTrack)) =>
        /\ pc /= "error"
        /\ (TrackParsed /\ track_no = Len(scenario.tracks)) =>
              /\ st.flow = "loop"
              /\ st.index = Len(track_data)
              /\ SelectSeq(st.events, IsKept)
                 = _parse_track(RawTrack(SelectSeq(LastRawTrack, IsBaseEvent))).events
              /\ st.tick = _parse_track(RawTrack(SelectSeq(LastRawTrack, IsBaseEvent))).tick
        /\ pc = "done" => result = load_midi(FileBytes(Base(scenario)))

C19_Witness ==
    /\ pc = "done"
    /\ scenario.family = "skip"
    /\ Len(scenario.tracks) = 2
    /\ \E k \in SkippedPlaces(LastRawTrack) :
          /\ LastRawTrack[k].msg = LongMeta
          /\ k + 2 <= Len(LastRawTrack)
          /\ LastRawTrack[k + 2].elide
    /\ Len(result.notes) = 3
    /\ Len(events) = Len(Base(scenario).tracks[1]) + Len(Base(scenario).tracks[2])

\* The tempos a conversion can have used: the default and those of the tempo
\* events.
TemposSeen == {DefaultTempoUs} \cup {events[i].payload[1] : i \in TempoPlaces}

\* C20: every note of every result has end >= start: it is the note of a
\* note-on and of a note-off that comes later in the merged order, at a tick
\* that is not smaller, both converted with the same tempo.
C20_EndNotBeforeStart ==
    /\ pc \in {"pair", "done"} =>
          \A n \in Range(notes) :
              /\ ~RatLess(n.end, n.start)
              /\ \E i, j \in 1..pos :
                    /\ i < j
                    /\ IsNoteOn(events[i]) /\ IsNoteOff(events[j])
                    /\ events[i].tick <= events[j].tick
                    /\ \E t \in TemposSeen : n = NoteOf(events[i], events[j], t)
    /\ pc = "done" =>
          \A i \in 1..Len(result.notes) :
              ~RatLess(result.notes[i].end, result.notes[i].start)

C20_Witness ==
    /\ pc = "done"
    /\ scenario.family = "merge"
    /\ Len(result.notes) = 2
    /\ \E i \in 1..Len(result.notes) : result.notes[i].end = result.notes[i].start
    /\ \E i \in 1..Len(result.notes) :
          RatLess(result.notes[i].start, result.notes[i].end)
    /\ scenario.tracks[2][1].delta < scenario.tracks[1][1].delta

\* The notes _render_loop has given the three instruments so far.
RenderedNotes == loop.stabs \o loop.plucks \o loop.pads

\* bar_start and bar_end of the bar bar_index, as _render_loop computes them.
BarStart(bar_index) == RatMul(Rat(bar_index, 1), loop.bar_length)

BarEnd(bar_index) == RatAdd(BarStart(bar_index), loop.bar_length)

\* The bar a rendered note starts in.
BarOf(note) == RatFloor(RatDiv(note.start, loop.bar_length))

\* The bars of the loop at its tempo, in seconds: bars x 4 x 60 / tempo.
LoopLength(bars) == RatMul(Rat(bars * 4, 1), RatDiv(Rat(60, 1), loop.tempo))

\* The loop has been written and load_midi has come to its end on it.
LoopReadBack == loop.phase = "written" /\ pc \in {"done", "error"}

\* C17: for the seeds, modes and loadable source files of LoopRuns and
\* target_bars = 8, every bar rendered has pad notes that start with the bar
\* and end 0.05 s before its end, no rendered note ends after the end of the
\* bar it starts in, and the loop written and read back with load_midi loads,
\* holds at least one note, and has its latest note end within 1.0 s of
\* 8 x 4 x 60 / tempo seconds.
C17_EightBarLoop ==
    /\ (loop.phase \in {"render", "written"} /\ pc \in {"render", "write"}) =>
          /\ \A bar \in 0..(loop.bar_index - 1) :
                \E i \in 1..Len(loop.pads) :
                    /\ loop.pads[i].start = BarStart(bar)
                    /\ loop.pads[i].end = RatSub(BarEnd(bar), Rat(5, 100))
          /\ \A i \in 1..Len(RenderedNotes) :
                /\ BarOf(RenderedNotes[i]) \in 0..(loop.bar_index - 1)
                /\ RatLeq(RenderedNotes[i].end, BarEnd(BarOf(RenderedNotes[i])))
    /\ LoopReadBack =>
          /\ pc = "done"
          /\ loop.options.target_bars = 8
          /\ Len(result.notes) >= 1
          /\ Within(MaxEnd(result.notes), LoopLength(8), Rat(1, 1))

\* The loop of the test (the four chords at 118 BPM, mode euphoric) has been
\* rendered over 8 bars with stabs, plucks and pads, written and read back.
C17_Witness ==
    /\ LoopReadBack
    /\ pc = "done"
    /\ scenario = SourceChords
    /\ loop.options.mode = "euphoric"
    /\ loop.bar_index = 8
    /\ Len(loop.stabs) > 0 /\ Len(loop.plucks) > 0 /\ Len(loop.pads) >= 8
    /\ Len(result.notes) = Len(RenderedNotes)
    /\ Len(result.notes) > 40
    /\ RatLess(LoopLength(7), MaxEnd(result.notes))

RECURSIVE DepthsFrom(_, _, _)
DepthsFrom(key, i, d) ==
    IF i > Len(events) THEN d
    ELSE LET before == d[Len(d)]
             after == IF events[i].kind = "note" /\ KeyOf(events[i]) = key
                      THEN IF IsNoteOn(events[i]) THEN before + 1 ELSE Max(0, before - 1)
                      ELSE before
         IN DepthsFrom(key, i + 1, Append(d, after))

\* Depth(n, key) for n = 0..Len(events), as a tuple: place n + 1 holds Depth(n, key).
Depths(key) == DepthsFrom(key, 1, <<0>>)

\* The place of the note-on whose entry lies at height h of the stack of key
\* after the first n merged events, for 1 <= h <= Depth(n, key): the last
\* note-on of key up to n that brought the stack to that height.  d is Depths(key).
EntryPlace(d, n, key, h) ==
    LET rises == {i \in 1..n : IsNoteOn(events[i]) /\ KeyOf(events[i]) = key /\ d[i + 1] = h}
    IN CHOOSE i \in rises : \A m \in rises : m <= i

\* The stack of key after the first n merged events, from the events alone.
OpenStack(d, n, key) ==
    [h \in 1..d[n + 1] |->
        LET on == events[EntryPlace(d, n, key, h)] IN <<on.tick, on.payload[4]>>]

\* The place of the note-on that the note-off at place j pairs with, 0 when it
\* finds no entry.  d is Depths(KeyOf(events[j])).
SourceOf(d, j) ==
    IF d[j] > 0 THEN EntryPlace(d, j - 1, KeyOf(events[j]), d[j]) ELSE 0

\* The pairing loop is running or has run to its end.
Pairing == pc \in {"pair", "done"}

\* C21: pairing is sound per (channel, pitch).  The n-th note emitted comes
\* from the n-th note-off that finds an entry and from a note-on at an earlier
\* place of the merged order with the same channel and pitch; it has the pitch
\* of the two and the velocity of the note-on; no two notes share a note-on or
\* a note-off; the stacks hold exactly the note-ons not yet paired, each under
\* its own key; a note-off that finds its stack empty adds no note and leaves
\* every stack as it was; and the notes returned are these notes.
C21_SoundPairing ==
    /\ Pairing =>
          LET depths == [key \in Keys |-> Depths(key)] @@ <<>>
              offs == {j \in 1..pos : IsNoteOff(events[j])}
              source == [j \in 1..pos |->
                            IF j \in offs THEN SourceOf(depths[KeyOf(events[j])], j) ELSE 0]
                        \o <<>>
              closing == {j \in offs : source[j] > 0}
              number == [j \in 1..pos |-> Cardinality({m \in closing : m <= j})] \o <<>>
          IN /\ Len(notes) = Cardinality(closing)
             /\ \A j \in closing :
                   LET i == source[j]
                       note == notes[number[j]]
                   IN /\ i < j
                      /\ IsNoteOn(events[i])
                      /\ KeyOf(events[i]) = KeyOf(events[j])
                      /\ note.pitch = events[j].payload[3]
                      /\ note.velocity = events[i].payload[4]
                      /\ \E t \in {DefaultTempoUs, tempo_us} :
                            note = NoteOf(events[i], events[j], t)
             /\ \A j, k \in closing :
                   j /= k => (source[j] /= source[k] /\ number[j] /= number[k])
             /\ DOMAIN active \subseteq Keys
             /\ \A key \in Keys : ActiveGet(active, key) = OpenStack(depths[key], pos, key)
             /\ (pos >= 1 /\ pos \in offs /\ pos \notin closing) =>
                   /\ Len(notes) = Cardinality(closing \ {pos})
                   /\ \A key \in Keys :
                         ActiveGet(active, key) = OpenStack(depths[key], pos - 1, key)
    /\ pc = "done" =>
          /\ Len(result.notes) = Len(notes)
          /\ \A n \in 1..Len(notes) : Count(result.notes, notes[n]) = Count(notes, notes[n])

\* A note has been emitted, and the event just consumed is a note-off that
\* found its own stack empty while a note of the same pitch was open on
\* another channel.
C21_Witness ==
    /\ pc = "pair"
    /\ pos >= 2
    /\ Len(notes) >= 1
    /\ IsNoteOff(events[pos])
    /\ ~Closes(pos)
    /\ \E key \in Keys :
          /\ key /= KeyOf(events[pos])
          /\ key[2] = KeyOf(events[pos])[2]
          /\ ActiveGet(active, key) /= <<>>

====
